---- MODULE Spec2Model ----
(***************************************************************************)
(* A model of package cachestore (src/cachestore.go): a cache-aside layer  *)
(* over the App Engine datastore (durable store) and memcache (volatile    *)
(* cache).  Every exported call is one action; the two backends are state  *)
(* variables and their failures are inputs of the calls.                   *)
(***************************************************************************)
EXTENDS Integers, Sequences, FiniteSets, TLC

VARIABLES
    testType,   \* the record type (and entity kind) the run works with
    store,      \* datastore: complete key -> property list of the entity
    memcache,   \* memcache: encoded key (string) -> item value (bytes)
    call,       \* the last call: its arguments, results and backend calls
    lastPut,    \* history: key -> the record of the last successful Put of the key, until the key is deleted
    deleted,    \* history: keys deleted by a Delete call that returned nil and not Put since
    task,       \* one encode or decode as it runs: the caller, the goroutine it starts and their channels
    arg,        \* one checkMultiArg call: the reflect.Value it is given and the category it returns
    run         \* two requests at once: a Put or Delete and a Get of one key, where each stands and what it holds

vars == <<testType, store, memcache, call, lastPut, deleted, task, arg, run>>

(***************************************************************************)
(* Bounds of the model.                                                    *)
(***************************************************************************)
MaxId == 2        \* complete keys of each kind have IntID 1..MaxId
MaxBatch == 2     \* PutMulti/GetMulti/DeleteMulti batches hold at most MaxBatch keys
MaxI == 2         \* Struct records carry I in 1..MaxI

(***************************************************************************)
(* Errors.  A Go error is nil, a plain error or an appengine.MultiError    *)
(* (a slice of errors).                                                    *)
(***************************************************************************)
Nil == [t |-> "nil"]
Error(name) == [t |-> "error", name |-> name]
MultiError(me) == [t |-> "MultiError", me |-> me]

ErrNoSuchEntity == Error("datastore: no such entity")
ErrInvalidKey == Error("datastore: invalid key")
ErrFieldMismatch == Error("datastore: cannot load field")
ErrInvalidType == Error("datastore: src has invalid type")
ErrDifferentLength == Error("datastore: key and src slices have different length")
ErrDatastoreCall == Error("datastore_v3: call error")
ErrCacheMiss == Error("memcache: cache miss")
ErrMemcacheCall == Error("memcache: call error")
\* a run-time panic of the call: it does not return
Panic == Error("panic: reflect: slice index out of range")
ErrGob == Error("gob: decode error")

IsMultiError(err) == err.t = "MultiError"

\* A MultiError when some position failed, nil otherwise (the `any` idiom).
ErrorOf(me) == IF \E i \in 1..Len(me) : me[i] # Nil THEN MultiError(me) ELSE Nil

(***************************************************************************)
(* Keys.  Kind "" makes a key invalid; IntID 0 makes it incomplete.        *)
(***************************************************************************)
Kinds == {"Struct", "PropertyLoadSaver"}
Key(kind, id) == [kind |-> kind, id |-> id]
InvalidKey == Key("", 0)
Incomplete(key) == key.id = 0
valid(key) == key.kind # ""
CompleteKeys == {Key(k, i) : k \in Kinds, i \in 1..MaxId}
KeysOf(kind) == {Key(kind, i) : i \in 0..MaxId} \cup {InvalidKey}

\* datastore.Key.Encode: the string form used as memcache key
Encode(key) == key.kind \o "/" \o ToString(key.id)

(***************************************************************************)
(* Records of the two test types and their property streams.               *)
(*   Struct{I int}: saved and loaded field by field.                       *)
(*   PropertyLoadSaver{S string}: Save emits S+".save", Load appends       *)
(*   ".load" to what it loaded.                                            *)
(***************************************************************************)
Zero(kind) == IF kind = "Struct" THEN [I |-> 0] ELSE [S |-> ""]
Records(kind) ==
    IF kind = "Struct" THEN {[I |-> n] : n \in 1..MaxI} ELSE {[S |-> "a"]}

\* an element of a []int argument: no struct and no PropertyLoadSaver
IntValue == [int |-> 0]
\* an element of a []*Struct or []*PropertyLoadSaver that is a nil pointer; a
\* pointer that is not nil is modelled by the record it points at
NilPointer(kind) == [nil |-> kind]
\* newStructPLS: v is a pointer and v.Elem() is a struct
IsStruct(rec) == "int" \notin DOMAIN rec /\ "nil" \notin DOMAIN rec

Property(name, value) == [Name |-> name, Value |-> value]

\* datastore.SaveStruct: one property per exported field, never fails here
SaveStruct(src) ==
    IF ~IsStruct(src) THEN [props |-> <<>>, err |-> ErrInvalidType]
    ELSE [props |-> <<Property("I", src.I)>>, err |-> Nil]

\* datastore.LoadStruct: every property must match a field of dst
RECURSIVE LoadStruct(_, _)
LoadStruct(dst, props) ==
    IF ~IsStruct(dst) THEN [dst |-> dst, err |-> ErrInvalidType]
    ELSE IF props = <<>> THEN [dst |-> dst, err |-> Nil]
    ELSE LET p == Head(props) IN
         IF p.Name \in DOMAIN dst
         THEN LoadStruct([dst EXCEPT ![p.Name] = p.Value], Tail(props))
         ELSE [dst |-> dst, err |-> ErrFieldMismatch]

\* (*PropertyLoadSaver).Save of the test type
Save(src) == [props |-> <<Property("S", src.S \o ".save")>>, err |-> Nil]

\* (*PropertyLoadSaver).Load of the test type
Load(dst, props) ==
    LET l == LoadStruct(dst, props) IN
    IF l.err # Nil THEN l
    ELSE [dst |-> [l.dst EXCEPT !.S = l.dst.S \o ".load"], err |-> Nil]

\* src.(datastore.PropertyLoadSaver): does the record have Load and Save
IsPropertyLoadSaver(rec) ==
    "S" \in DOMAIN rec \/ ("nil" \in DOMAIN rec /\ rec.nil = "PropertyLoadSaver")

(***************************************************************************)
(* Batch arguments.  A src/dst argument is a Go value of some type: its    *)
(* type decides checkMultiArg, its elements are the records.               *)
(***************************************************************************)
Values(type, elems) == [type |-> type, elems |-> elems]
SliceOf(kind) == "[]" \o kind

multiArgTypeInvalid == 0
multiArgTypePropertyLoadSaver == 1
multiArgTypeStruct == 2
multiArgTypeStructPtr == 3
multiArgTypeInterface == 4

\* reflect.Type: the kind of a type, its element type (of a slice or a
\* pointer), the receiver its Load and Save methods are declared on ("none":
\* it has none; an interface type that lists them has "value") and its name
\* where identity by name matters
NoType == [kind |-> "invalid"]
Type(kind, elem, methods, name) ==
    [kind |-> kind, elem |-> elem, methods |-> methods, name |-> name]
PtrTo(t) == Type("ptr", t, "none", "")
SliceType(t) == Type("slice", t, "none", "")
typeOfPropertyList ==
    Type("slice", Type("struct", NoType, "none", "Property"), "ptr", "PropertyList")
\* t.Implements(typeOfPropertyLoadSaver): the method set of a pointer holds the
\* methods of a named non-pointer non-interface element on either receiver,
\* that of any other type the methods on the value receiver
Implements(t) ==
    IF t.kind = "ptr"
    THEN t.elem.kind \notin {"ptr", "interface"} /\ t.elem.methods \in {"ptr", "value"}
    ELSE t.methods = "value"

\* the types of the arguments the calls of the model pass
TypeOf(name) ==
    CASE name = "[]Struct" -> SliceType(Type("struct", NoType, "none", ""))
      [] name = "[]PropertyLoadSaver" -> SliceType(Type("struct", NoType, "ptr", ""))
      [] name = "[]*Struct" -> SliceType(PtrTo(Type("struct", NoType, "none", "")))
      [] name = "[]*PropertyLoadSaver" -> SliceType(PtrTo(Type("struct", NoType, "ptr", "")))
      [] name = "[]interface{}" -> SliceType(Type("interface", NoType, "none", ""))
      [] name = "[]int" -> SliceType(Type("int", NoType, "none", ""))
      [] name = "int" -> Type("int", NoType, "none", "")
      [] OTHER -> NoType
\* reflect.ValueOf(values), as far as checkMultiArg looks at it
ValueOf(values) == [type |-> TypeOf(values.type)]

checkMultiArgKindFirst(v) ==
    IF v.type.kind # "slice" THEN multiArgTypeInvalid
    ELSE IF v.type = typeOfPropertyList THEN multiArgTypeInvalid
    ELSE LET elemType == v.type.elem IN
         CASE elemType.kind = "struct" -> multiArgTypeStruct
           [] elemType.kind = "interface" -> multiArgTypeInterface
           [] elemType.kind = "ptr" /\ elemType.elem.kind = "struct" -> multiArgTypeStructPtr
           [] Implements(PtrTo(elemType)) -> multiArgTypePropertyLoadSaver
           [] OTHER -> multiArgTypeInvalid

checkMultiArg(v) ==
    IF v.type.kind # "slice" THEN multiArgTypeInvalid
    ELSE IF v.type = typeOfPropertyList THEN multiArgTypeInvalid
    ELSE LET elemType == v.type.elem IN
         IF Implements(PtrTo(elemType)) THEN multiArgTypePropertyLoadSaver
         ELSE CASE elemType.kind = "struct" -> multiArgTypeStruct
                [] elemType.kind = "interface" -> multiArgTypeInterface
                [] elemType.kind = "ptr" ->
                     IF elemType.elem.kind = "struct" THEN multiArgTypeStructPtr
                     ELSE multiArgTypeInvalid
                [] OTHER -> multiArgTypeInvalid

(***************************************************************************)
(* gob payloads.  A byte slice either is the gob stream of a property list *)
(* or is not decodable.                                                    *)
(***************************************************************************)
Bytes(isGob, props) == [valid |-> isGob, props |-> props]
NilBytes == Bytes(FALSE, <<>>)

propertiesToGob(src) == [b |-> Bytes(TRUE, src), err |-> Nil]

gobToProperties(b) ==
    IF b.valid THEN [props |-> b.props, err |-> Nil]
    ELSE [props |-> <<>>, err |-> ErrGob]

\* encode: Save (or SaveStruct) streams the properties, propertiesToGob
\* collects them; the save error wins and drops the payload
encode(src) ==
    LET saved == IF IsPropertyLoadSaver(src) THEN Save(src) ELSE SaveStruct(src)
        g == propertiesToGob(saved.props)
    IN  IF saved.err # Nil THEN [b |-> NilBytes, err |-> saved.err]
        ELSE [b |-> g.b, err |-> g.err]

\* decode: gobToProperties replays the properties (none on a gob error) into
\* Load (or LoadStruct); the load error wins, else the gob error
decode(b, dst) ==
    LET g == gobToProperties(b)
        l == IF IsPropertyLoadSaver(dst) THEN Load(dst, g.props)
             ELSE LoadStruct(dst, g.props)
    IN  [dst |-> l.dst, err |-> IF l.err # Nil THEN l.err ELSE g.err]

(***************************************************************************)
(* The volatile cache (appengine/memcache), as the package calls it.  A    *)
(* cache is a function from the encoded keys it holds to item values.      *)
(***************************************************************************)
Range(seq) == {seq[i] : i \in 1..Len(seq)}
Item(key, value) == [Key |-> key, Value |-> value]
Max(S) == CHOOSE x \in S : \A y \in S : y <= x
Min(S) == CHOOSE x \in S : \A y \in S : x <= y

\* memcache.GetMulti: the items found, keyed by string; a failed call
\* returns no items and an error
memcacheGetMulti(m, key, ok) ==
    IF ~ok THEN [itemMap |-> <<>>, err |-> ErrMemcacheCall]
    ELSE [itemMap |-> [k \in Range(key) \cap DOMAIN m |-> Item(k, m[k])],
          err |-> Nil]

\* memcache.SetMulti: stores every item (the last one of a key wins); a
\* failed call stores nothing and returns an error
memcacheSetMulti(m, item, ok) ==
    LET keys == {item[i].Key : i \in 1..Len(item)}
        last(k) == Max({i \in 1..Len(item) : item[i].Key = k})
    IN  IF ~ok THEN [memcache |-> m, err |-> ErrMemcacheCall]
        ELSE [memcache |-> [k \in DOMAIN m \cup keys |->
                               IF k \in keys THEN item[last(k)].Value ELSE m[k]],
              err |-> Nil]

\* memcache.DeleteMulti: removes every key and reports a key that is not
\* cached as ErrCacheMiss at its position; a failed call removes nothing
memcacheDeleteMulti(m, key, ok) ==
    IF ~ok THEN [memcache |-> m, err |-> ErrMemcacheCall]
    ELSE [memcache |-> [k \in DOMAIN m \ Range(key) |-> m[k]],
          err |-> ErrorOf([i \in 1..Len(key) |->
                           IF key[i] \in DOMAIN m THEN Nil ELSE ErrCacheMiss])]

(***************************************************************************)
(* The durable store (appengine/datastore), as the package calls it.  A    *)
(* store is a function from the complete keys it holds to property lists.  *)
(***************************************************************************)
\* datastore.multiValid: ErrInvalidKey at the positions of invalid keys
multiValid(key) ==
    ErrorOf([i \in 1..Len(key) |-> IF valid(key[i]) THEN Nil ELSE ErrInvalidKey])

\* datastore.GetMulti: loads every entity into its destination; missing
\* entities are reported per position, a failed call as one error
datastoreGetMulti(s, key, dst, ok) ==
    LET loaded == [i \in 1..Len(key) |->
                      IF key[i] \in DOMAIN s
                      THEN IF IsPropertyLoadSaver(dst.elems[i])
                           THEN Load(dst.elems[i], s[key[i]])
                           ELSE LoadStruct(dst.elems[i], s[key[i]])
                      ELSE [dst |-> dst.elems[i], err |-> ErrNoSuchEntity]]
    IN  IF checkMultiArg(ValueOf(dst)) = multiArgTypeInvalid THEN [dst |-> dst, err |-> ErrInvalidType]
        ELSE IF Len(key) # Len(dst.elems) THEN [dst |-> dst, err |-> ErrDifferentLength]
        ELSE IF Len(key) = 0 THEN [dst |-> dst, err |-> Nil]
        ELSE IF multiValid(key) # Nil THEN [dst |-> dst, err |-> multiValid(key)]
        ELSE IF ~ok \/ \E i \in 1..Len(key) : Incomplete(key[i])
             THEN [dst |-> dst, err |-> ErrDatastoreCall]
        ELSE [dst |-> Values(dst.type, [i \in 1..Len(key) |-> loaded[i].dst]),
              err |-> ErrorOf([i \in 1..Len(key) |-> loaded[i].err])]

\* the ids the store may hand out to the incomplete keys of a batch: it
\* never hands out an id that is in use
RECURSIVE CompleteKey(_, _)
CompleteKey(key, free) ==
    IF key = <<>> THEN <<>>
    ELSE LET k == Head(key)
             c == IF Incomplete(k)
                  THEN Key(k.kind, Min({i \in 1..MaxId : Key(k.kind, i) \in free}))
                  ELSE k
         IN  <<c>> \o CompleteKey(Tail(key), free \ {c})

CanCompleteKey(key, free) ==
    \A kind \in Kinds :
        Cardinality({i \in 1..Len(key) : key[i] = Key(kind, 0)})
            <= Cardinality({k \in free \ Range(key) : k.kind = kind})

\* datastore.PutMulti: saves every entity and returns the completed keys;
\* every error returns a nil key slice and saves nothing
datastorePutMulti(s, key, src, ok, free) ==
    LET ret == CompleteKey(key, free \ Range(key))
        saved == [i \in 1..Len(key) |->
                     IF IsPropertyLoadSaver(src.elems[i]) THEN Save(src.elems[i])
                     ELSE SaveStruct(src.elems[i])]
        last(k) == Max({i \in 1..Len(key) : ret[i] = k})
    IN  IF checkMultiArg(ValueOf(src)) = multiArgTypeInvalid
        THEN [store |-> s, key |-> <<>>, err |-> ErrInvalidType]
        ELSE IF Len(key) # Len(src.elems)
        THEN [store |-> s, key |-> <<>>, err |-> ErrDifferentLength]
        ELSE IF Len(key) = 0 THEN [store |-> s, key |-> <<>>, err |-> Nil]
        ELSE IF multiValid(key) # Nil
        THEN [store |-> s, key |-> <<>>, err |-> multiValid(key)]
        ELSE IF ~ok THEN [store |-> s, key |-> <<>>, err |-> ErrDatastoreCall]
        ELSE [store |-> [k \in DOMAIN s \cup Range(ret) |->
                            IF k \in Range(ret) THEN saved[last(k)].props ELSE s[k]],
              key |-> ret, err |-> Nil]

\* datastore.DeleteMulti: removes every entity; a missing one is no error
datastoreDeleteMulti(s, key, ok) ==
    IF Len(key) = 0 THEN [store |-> s, err |-> Nil]
    ELSE IF multiValid(key) # Nil THEN [store |-> s, err |-> multiValid(key)]
    ELSE IF ~ok \/ \E i \in 1..Len(key) : Incomplete(key[i])
         THEN [store |-> s, err |-> ErrDatastoreCall]
    ELSE [store |-> [k \in DOMAIN s \ Range(key) |-> s[k]], err |-> Nil]

(***************************************************************************)
(* Package cachestore (src/cachestore.go).  Every function returns a       *)
(* record of its results, the backend state it leaves, the backend calls   *)
(* it issued in order (calls) and what it logged with Warningf (log).      *)
(***************************************************************************)
\* a call to a backend: the function, the error it returned and, for
\* datastore.PutMulti, the keys it returned
BackendCall(fn, err, keys) == [fn |-> fn, err |-> err, keys |-> keys]

\* an encodeKeys that encodes the first key at every position
encodeKeysOfFirst(keys) == [i \in 1..Len(keys) |-> Encode(keys[1])]

\* encodeKeys returns an array of string encoded datastore.Keys
encodeKeys(keys) == [i \in 1..Len(keys) |-> Encode(keys[i])]

\* v.Index(i), with Addr() for []S and []P: the record either way
Elem(v, i) == v.elems[i]

\* an encodeItems without the check of key.Incomplete(): an item for every key
RECURSIVE encodeItemsOfAllKeysFrom(_, _, _)
encodeItemsOfAllKeysFrom(keys, values, i) ==
    IF i > Len(keys) THEN [items |-> <<>>, err |-> Nil]
    ELSE IF i > Len(values.elems) THEN [items |-> <<>>, err |-> Panic]
    ELSE LET e == encode(Elem(values, i)) IN
         IF e.err # Nil THEN [items |-> <<>>, err |-> e.err]
         ELSE LET rest == encodeItemsOfAllKeysFrom(keys, values, i + 1) IN
              [items |-> <<Item(Encode(keys[i]), e.b)>> \o rest.items, err |-> rest.err]

encodeItemsOfAllKeys(keys, values) == encodeItemsOfAllKeysFrom(keys, values, 1)

\* encodeItems returns an array of memcache.Items for all key/value pairs
\* where the key is not incomplete; it stops at the first encode error, and
\* v.Index(i) panics where values has no i-th element
RECURSIVE encodeItemsFrom(_, _, _)
encodeItemsFrom(keys, values, i) ==
    IF i > Len(keys) THEN [items |-> <<>>, err |-> Nil]
    ELSE IF Incomplete(keys[i]) THEN encodeItemsFrom(keys, values, i + 1)
    ELSE IF i > Len(values.elems) THEN [items |-> <<>>, err |-> Panic]
    ELSE LET e == encode(Elem(values, i)) IN
         IF e.err # Nil THEN [items |-> <<>>, err |-> e.err]
         ELSE LET rest == encodeItemsFrom(keys, values, i + 1) IN
              [items |-> <<Item(Encode(keys[i]), e.b)>> \o rest.items, err |-> rest.err]

encodeItems(keys, values) == encodeItemsFrom(keys, values, 1)

\* a cache that, when encodeItems fails, tries again without the last key and
\* sets what that gives
cacheWithoutLast(keys, src, m, setOk) ==
    LET e == IF encodeItems(keys, src).err \in {Nil, Panic} THEN encodeItems(keys, src)
             ELSE encodeItems(SubSeq(keys, 1, Len(keys) - 1), src)
        set == Len(e.items) > 0 /\ e.err = Nil
        s == memcacheSetMulti(m, e.items, setOk)
        err == IF set THEN s.err ELSE e.err
    IN  [memcache |-> IF set THEN s.memcache ELSE m,
         calls |-> IF set THEN <<BackendCall("memcache.SetMulti", s.err,
                                             [j \in 1..Len(e.items) |-> e.items[j].Key])>>
                   ELSE <<>>,
         log |-> IF err \notin {Nil, Panic} THEN <<err>> ELSE <<>>, err |-> err]

\* cache: one SetMulti of the encoded items, if there are any and encoding
\* did not fail; every error is logged and none returned
cache(keys, src, m, setOk) ==
    LET e == encodeItems(keys, src)
        set == Len(e.items) > 0 /\ e.err = Nil
        s == memcacheSetMulti(m, e.items, setOk)
        err == IF set THEN s.err ELSE e.err
    IN  [memcache |-> IF set THEN s.memcache ELSE m,
         calls |-> IF set THEN <<BackendCall("memcache.SetMulti", s.err,
                                             [j \in 1..Len(e.items) |-> e.items[j].Key])>>
                   ELSE <<>>,
         log |-> IF err \notin {Nil, Panic} THEN <<err>> ELSE <<>>, err |-> err]

\* a decodeItems that walks the keys backwards: position i is decoded from
\* the item of the i-th key from the end
decodeItemsReversed(keys, items, dst) ==
    LET at(i) == keys[Len(keys) + 1 - i]
        panics == {i \in 1..Len(keys) :
                      Encode(at(i)) \in DOMAIN items /\ i > Len(dst.elems)}
        n == IF panics = {} THEN Len(keys) ELSE Min(panics) - 1
        d == [i \in 1..n |->
                 IF Encode(at(i)) \notin DOMAIN items
                 THEN [dst |-> Nil, err |-> ErrNoSuchEntity]
                 ELSE decode(items[Encode(at(i))].Value, Elem(dst, i))]
    IN  [dst |-> Values(dst.type, [i \in 1..Len(dst.elems) |->
                                      IF i <= n /\ d[i].err # ErrNoSuchEntity
                                      THEN d[i].dst ELSE dst.elems[i]]),
         err |-> IF panics # {} THEN Panic ELSE ErrorOf([i \in 1..n |-> d[i].err])]

\* a decodeItems that returns its error vector whether or not an entry is set
decodeItemsAlwaysVector(keys, items, dst) ==
    LET panics == {i \in 1..Len(keys) :
                      Encode(keys[i]) \in DOMAIN items /\ i > Len(dst.elems)}
        n == IF panics = {} THEN Len(keys) ELSE Min(panics) - 1
        d == [i \in 1..n |->
                 IF Encode(keys[i]) \notin DOMAIN items
                 THEN [dst |-> Nil, err |-> ErrNoSuchEntity]
                 ELSE decode(items[Encode(keys[i])].Value, Elem(dst, i))]
    IN  [dst |-> Values(dst.type, [i \in 1..Len(dst.elems) |->
                                      IF i <= n /\ d[i].err # ErrNoSuchEntity
                                      THEN d[i].dst ELSE dst.elems[i]]),
         err |-> IF panics # {} THEN Panic ELSE MultiError([i \in 1..n |-> d[i].err])]

\* a decodeItems that returns the first decode error alone
decodeItemsFirstError(keys, items, dst) ==
    LET d == decodeItemsAlwaysVector(keys, items, dst)
        failed == IF IsMultiError(d.err)
                  THEN {i \in 1..Len(d.err.me) : d.err.me[i] # Nil} ELSE {}
    IN  [dst |-> d.dst,
         err |-> IF ~IsMultiError(d.err) THEN d.err
                 ELSE IF failed = {} THEN Nil ELSE d.err.me[Min(failed)]]

\* decodeItems decodes items and writes them to dst; keys give the order;
\* v.Index(i) panics where dst has no i-th element for an item that is there
decodeItems(keys, items, dst) ==
    LET panics == {i \in 1..Len(keys) :
                      Encode(keys[i]) \in DOMAIN items /\ i > Len(dst.elems)}
        n == IF panics = {} THEN Len(keys) ELSE Min(panics) - 1
        d == [i \in 1..n |->
                 IF Encode(keys[i]) \notin DOMAIN items
                 THEN [dst |-> Nil, err |-> ErrNoSuchEntity]
                 ELSE decode(items[Encode(keys[i])].Value, Elem(dst, i))]
    IN  [dst |-> Values(dst.type, [i \in 1..Len(dst.elems) |->
                                      IF i <= n /\ d[i].err # ErrNoSuchEntity
                                      THEN d[i].dst ELSE dst.elems[i]]),
         err |-> IF panics # {} THEN Panic ELSE ErrorOf([i \in 1..n |-> d[i].err])]

\* a GetMulti that never serves from memcache: it reads the datastore whatever
\* the lookup would have found
GetMultiReadThrough(m, s, keys, dst, getOk, storeOk, setOk) ==
    LET read == datastoreGetMulti(s, keys, dst, storeOk)
        cached == cache(keys, read.dst, m, setOk)
        fetch == BackendCall("datastore.GetMulti", read.err, <<>>)
    IN  IF read.err # Nil
        THEN [err |-> read.err, dst |-> read.dst, store |-> s, memcache |-> m,
              calls |-> <<fetch>>, log |-> <<>>]
        ELSE [err |-> Nil, dst |-> read.dst, store |-> s, memcache |-> cached.memcache,
              calls |-> <<fetch>> \o cached.calls, log |-> cached.log]

\* a GetMulti that unwraps the MultiError of the datastore read as Get does
GetMultiFlatError(m, s, keys, dst, getOk, storeOk, setOk) ==
    LET encodedKeys == encodeKeys(keys)
        got == memcacheGetMulti(m, encodedKeys, getOk)
        log == IF got.err # Nil THEN <<got.err>> ELSE <<>>
        read == datastoreGetMulti(s, keys, dst, storeOk)
        cached == cache(keys, read.dst, m, setOk)
        decoded == decodeItems(keys, got.itemMap, dst)
        lookup == BackendCall("memcache.GetMulti", got.err, <<>>)
        fetch == BackendCall("datastore.GetMulti", read.err, <<>>)
    IN  IF Cardinality(DOMAIN got.itemMap) # Len(keys)
        THEN IF read.err # Nil
             THEN [err |-> IF IsMultiError(read.err) THEN ErrNoSuchEntity ELSE read.err,
                   dst |-> read.dst, store |-> s, memcache |-> m,
                   calls |-> <<lookup, fetch>>, log |-> log]
             ELSE [err |-> Nil, dst |-> read.dst, store |-> s, memcache |-> cached.memcache,
                   calls |-> <<lookup, fetch>> \o cached.calls,
                   log |-> log \o cached.log]
        ELSE [err |-> decoded.err, dst |-> decoded.dst, store |-> s, memcache |-> m,
              calls |-> <<lookup>>, log |-> log]

\* a GetMulti that returns the error of a cache call when the datastore read
\* went well
GetMultiReturnsCacheError(m, s, keys, dst, getOk, storeOk, setOk) ==
    LET encodedKeys == encodeKeys(keys)
        got == memcacheGetMulti(m, encodedKeys, getOk)
        log == IF got.err # Nil THEN <<got.err>> ELSE <<>>
        read == datastoreGetMulti(s, keys, dst, storeOk)
        cached == cache(keys, read.dst, m, setOk)
        decoded == decodeItems(keys, got.itemMap, dst)
        lookup == BackendCall("memcache.GetMulti", got.err, <<>>)
        fetch == BackendCall("datastore.GetMulti", read.err, <<>>)
    IN  IF Cardinality(DOMAIN got.itemMap) # Len(keys)
        THEN IF read.err # Nil
             THEN [err |-> read.err, dst |-> read.dst, store |-> s, memcache |-> m,
                   calls |-> <<lookup, fetch>>, log |-> log]
             ELSE [err |-> IF got.err # Nil THEN got.err ELSE cached.err,
                   dst |-> read.dst, store |-> s, memcache |-> cached.memcache,
                   calls |-> <<lookup, fetch>> \o cached.calls,
                   log |-> log \o cached.log]
        ELSE [err |-> decoded.err, dst |-> decoded.dst, store |-> s, memcache |-> m,
              calls |-> <<lookup>>, log |-> log]

\* a GetMulti that does not cache what it read from the datastore
GetMultiNoRepopulation(m, s, keys, dst, getOk, storeOk, setOk) ==
    LET encodedKeys == encodeKeys(keys)
        got == memcacheGetMulti(m, encodedKeys, getOk)
        log == IF got.err # Nil THEN <<got.err>> ELSE <<>>
        read == datastoreGetMulti(s, keys, dst, storeOk)
        decoded == decodeItems(keys, got.itemMap, dst)
        lookup == BackendCall("memcache.GetMulti", got.err, <<>>)
        fetch == BackendCall("datastore.GetMulti", read.err, <<>>)
    IN  IF Cardinality(DOMAIN got.itemMap) # Len(keys)
        THEN [err |-> read.err, dst |-> read.dst, store |-> s, memcache |-> m,
              calls |-> <<lookup, fetch>>, log |-> log]
        ELSE [err |-> decoded.err, dst |-> decoded.dst, store |-> s, memcache |-> m,
              calls |-> <<lookup>>, log |-> log]

\* a GetMulti that gives up when the cache lookup fails
GetMultiFailsOnLookupError(m, s, keys, dst, getOk, storeOk, setOk) ==
    LET encodedKeys == encodeKeys(keys)
        got == memcacheGetMulti(m, encodedKeys, getOk)
        log == IF got.err # Nil THEN <<got.err>> ELSE <<>>
        read == datastoreGetMulti(s, keys, dst, storeOk)
        cached == cache(keys, read.dst, m, setOk)
        decoded == decodeItems(keys, got.itemMap, dst)
        lookup == BackendCall("memcache.GetMulti", got.err, <<>>)
        fetch == BackendCall("datastore.GetMulti", read.err, <<>>)
    IN  IF got.err # Nil
        THEN [err |-> got.err, dst |-> dst, store |-> s, memcache |-> m,
              calls |-> <<lookup>>, log |-> log]
        ELSE IF Cardinality(DOMAIN got.itemMap) # Len(keys)
        THEN IF read.err # Nil
             THEN [err |-> read.err, dst |-> read.dst, store |-> s, memcache |-> m,
                   calls |-> <<lookup, fetch>>, log |-> log]
             ELSE [err |-> IF cached.err = Panic THEN Panic ELSE Nil,
                   dst |-> read.dst, store |-> s, memcache |-> cached.memcache,
                   calls |-> <<lookup, fetch>> \o cached.calls,
                   log |-> log \o cached.log]
        ELSE [err |-> decoded.err, dst |-> decoded.dst, store |-> s, memcache |-> m,
              calls |-> <<lookup>>, log |-> log]

\* a GetMulti that counts a hit for every position whose key is cached
GetMultiHitsPerPosition(m, s, keys, dst, getOk, storeOk, setOk) ==
    LET encodedKeys == encodeKeys(keys)
        got == memcacheGetMulti(m, encodedKeys, getOk)
        log == IF got.err # Nil THEN <<got.err>> ELSE <<>>
        read == datastoreGetMulti(s, keys, dst, storeOk)
        cached == cache(keys, read.dst, m, setOk)
        decoded == decodeItems(keys, got.itemMap, dst)
        lookup == BackendCall("memcache.GetMulti", got.err, encodedKeys)
        fetch == BackendCall("datastore.GetMulti", read.err, <<>>)
    IN  IF \E i \in 1..Len(keys) : encodedKeys[i] \notin DOMAIN got.itemMap
        THEN IF read.err # Nil
             THEN [err |-> read.err, dst |-> read.dst, store |-> s, memcache |-> m,
                   calls |-> <<lookup, fetch>>, log |-> log]
             ELSE [err |-> IF cached.err = Panic THEN Panic ELSE Nil,
                   dst |-> read.dst, store |-> s, memcache |-> cached.memcache,
                   calls |-> <<lookup, fetch>> \o cached.calls,
                   log |-> log \o cached.log]
        ELSE [err |-> decoded.err, dst |-> decoded.dst, store |-> s, memcache |-> m,
              calls |-> <<lookup>>, log |-> log]

\* a GetMulti that caches what the datastore read left in dst whether or not
\* the read returned an error
GetMultiCachesAfterError(m, s, keys, dst, getOk, storeOk, setOk) ==
    LET encodedKeys == encodeKeys(keys)
        got == memcacheGetMulti(m, encodedKeys, getOk)
        log == IF got.err # Nil THEN <<got.err>> ELSE <<>>
        read == datastoreGetMulti(s, keys, dst, storeOk)
        cached == cache(keys, read.dst, m, setOk)
        decoded == decodeItems(keys, got.itemMap, dst)
        lookup == BackendCall("memcache.GetMulti", got.err, encodedKeys)
        fetch == BackendCall("datastore.GetMulti", read.err, <<>>)
    IN  IF Cardinality(DOMAIN got.itemMap) # Len(keys)
        THEN [err |-> IF read.err # Nil THEN read.err
                      ELSE IF cached.err = Panic THEN Panic ELSE Nil,
              dst |-> read.dst, store |-> s, memcache |-> cached.memcache,
              calls |-> <<lookup, fetch>> \o cached.calls,
              log |-> log \o cached.log]
        ELSE [err |-> decoded.err, dst |-> decoded.dst, store |-> s, memcache |-> m,
              calls |-> <<lookup>>, log |-> log]

\* a GetMulti that decodes from memcache as soon as one key hits
GetMultiAnyHit(m, s, keys, dst, getOk, storeOk, setOk) ==
    LET encodedKeys == encodeKeys(keys)
        got == memcacheGetMulti(m, encodedKeys, getOk)
        log == IF got.err # Nil THEN <<got.err>> ELSE <<>>
        read == datastoreGetMulti(s, keys, dst, storeOk)
        cached == cache(keys, read.dst, m, setOk)
        decoded == decodeItems(keys, got.itemMap, dst)
        lookup == BackendCall("memcache.GetMulti", got.err, encodedKeys)
        fetch == BackendCall("datastore.GetMulti", read.err, <<>>)
    IN  IF DOMAIN got.itemMap = {} /\ keys # <<>>
        THEN IF read.err # Nil
             THEN [err |-> read.err, dst |-> read.dst, store |-> s, memcache |-> m,
                   calls |-> <<lookup, fetch>>, log |-> log]
             ELSE [err |-> IF cached.err = Panic THEN Panic ELSE Nil,
                   dst |-> read.dst, store |-> s, memcache |-> cached.memcache,
                   calls |-> <<lookup, fetch>> \o cached.calls,
                   log |-> log \o cached.log]
        ELSE [err |-> decoded.err, dst |-> decoded.dst, store |-> s, memcache |-> m,
              calls |-> <<lookup>>, log |-> log]

\* GetMulti: served from memcache when every key hits, else read whole
\* from the datastore and cached for next time
GetMulti(m, s, keys, dst, getOk, storeOk, setOk) ==
    LET encodedKeys == encodeKeys(keys)
        got == memcacheGetMulti(m, encodedKeys, getOk)
        log == IF got.err # Nil THEN <<got.err>> ELSE <<>>
        read == datastoreGetMulti(s, keys, dst, storeOk)
        cached == cache(keys, read.dst, m, setOk)
        decoded == decodeItems(keys, got.itemMap, dst)
        lookup == BackendCall("memcache.GetMulti", got.err, encodedKeys)
        fetch == BackendCall("datastore.GetMulti", read.err, <<>>)
    IN  IF Cardinality(DOMAIN got.itemMap) # Len(keys)
        THEN IF read.err # Nil
             THEN [err |-> read.err, dst |-> read.dst, store |-> s, memcache |-> m,
                   calls |-> <<lookup, fetch>>, log |-> log]
             ELSE [err |-> IF cached.err = Panic THEN Panic ELSE Nil,
                   dst |-> read.dst, store |-> s, memcache |-> cached.memcache,
                   calls |-> <<lookup, fetch>> \o cached.calls,
                   log |-> log \o cached.log]
        ELSE [err |-> decoded.err, dst |-> decoded.dst, store |-> s, memcache |-> m,
              calls |-> <<lookup>>, log |-> log]

\* a wrapper that hands the error of the batch call on as it is
NoUnwrap(err) == err

\* me[0] of a MultiError, any other error as it is
Unwrap(err) == IF IsMultiError(err) THEN err.me[1] ELSE err

\* Get: GetMulti of one key, a MultiError unwrapped to its element 0
GetReturn(r) == [multi |-> [err |-> r.err, keys |-> <<>>]] @@ [r EXCEPT !.err = Unwrap(r.err)]
Get(m, s, key, dst, getOk, storeOk, setOk) ==
    GetReturn(GetMulti(m, s, <<key>>, Values("[]interface{}", <<dst>>), getOk, storeOk, setOk))

\* a PutMulti that returns the error of the cache write when the datastore
\* write went well
PutMultiReturnsCacheError(m, s, keys, src, storeOk, setOk, free) ==
    LET put == datastorePutMulti(s, keys, src, storeOk, free)
        cached == cache(put.key, src, m, setOk)
    IN  [keys |-> put.key, err |-> IF put.err # Nil THEN put.err ELSE cached.err,
         store |-> put.store, memcache |-> cached.memcache,
         calls |-> <<BackendCall("datastore.PutMulti", put.err, put.key)>> \o cached.calls,
         log |-> cached.log]

\* a PutMulti that caches under the keys it was given, not the keys the
\* datastore returned
PutMultiCachesGivenKeys(m, s, keys, src, storeOk, setOk, free) ==
    LET put == datastorePutMulti(s, keys, src, storeOk, free)
        cached == cache(keys, src, m, setOk)
    IN  [keys |-> put.key, err |-> put.err, store |-> put.store,
         memcache |-> cached.memcache,
         calls |-> <<BackendCall("datastore.PutMulti", put.err, put.key)>> \o cached.calls,
         log |-> cached.log]

\* a PutMulti that writes the cache first, under the keys it was given, and
\* the datastore after
PutMultiCacheFirst(m, s, keys, src, storeOk, setOk, free) ==
    LET cached == cache(keys, src, m, setOk)
        put == datastorePutMulti(s, keys, src, storeOk, free)
    IN  [keys |-> put.key, err |-> put.err, store |-> put.store,
         memcache |-> cached.memcache,
         calls |-> cached.calls \o <<BackendCall("datastore.PutMulti", put.err, put.key)>>,
         log |-> cached.log]

\* PutMulti: datastore.PutMulti, then cache() of the keys it returned
PutMulti(m, s, keys, src, storeOk, setOk, free) ==
    LET put == datastorePutMulti(s, keys, src, storeOk, free)
        cached == cache(put.key, src, m, setOk)
    IN  [keys |-> put.key, err |-> IF cached.err = Panic THEN Panic ELSE put.err,
         store |-> put.store,
         memcache |-> cached.memcache,
         calls |-> <<BackendCall("datastore.PutMulti", put.err, put.key)>> \o cached.calls,
         log |-> cached.log]

\* Put: PutMulti of one key; a nil key with the (unwrapped) error, else key 0
PutReturn(r) ==
    [multi |-> [err |-> r.err, keys |-> r.keys]] @@
    [r EXCEPT !.keys = IF r.err # Nil THEN <<>> ELSE <<r.keys[1]>>,
              !.err = Unwrap(r.err)]
Put(m, s, key, src, storeOk, setOk, free) ==
    PutReturn(PutMulti(m, s, <<key>>, Values("[]interface{}", <<src>>), storeOk, setOk, free))

\* a DeleteMulti that returns the error of the cache delete when the
\* datastore delete went well
DeleteMultiReturnsCacheError(m, s, keys, delOk, storeOk) ==
    LET uncached == memcacheDeleteMulti(m, encodeKeys(keys), delOk)
        removed == datastoreDeleteMulti(s, keys, storeOk)
    IN  [err |-> IF removed.err # Nil THEN removed.err ELSE uncached.err,
         store |-> removed.store, memcache |-> uncached.memcache,
         calls |-> <<BackendCall("memcache.DeleteMulti", uncached.err, <<>>),
                     BackendCall("datastore.DeleteMulti", removed.err, <<>>)>>,
         log |-> IF uncached.err # Nil THEN <<uncached.err>> ELSE <<>>]

\* a DeleteMulti that leaves memcache alone
DeleteMultiStoreOnly(m, s, keys, delOk, storeOk) ==
    LET removed == datastoreDeleteMulti(s, keys, storeOk)
    IN  [err |-> removed.err, store |-> removed.store, memcache |-> m,
         calls |-> <<BackendCall("datastore.DeleteMulti", removed.err, <<>>)>>,
         log |-> <<>>]

\* DeleteMulti: memcache.DeleteMulti (its error logged), then the result of
\* datastore.DeleteMulti
DeleteMulti(m, s, keys, delOk, storeOk) ==
    LET encodedKeys == encodeKeys(keys)
        uncached == memcacheDeleteMulti(m, encodedKeys, delOk)
        removed == datastoreDeleteMulti(s, keys, storeOk)
    IN  [err |-> removed.err, store |-> removed.store, memcache |-> uncached.memcache,
         calls |-> <<BackendCall("memcache.DeleteMulti", uncached.err, encodedKeys),
                     BackendCall("datastore.DeleteMulti", removed.err, <<>>)>>,
         log |-> IF uncached.err # Nil THEN <<uncached.err>> ELSE <<>>]

\* Delete: DeleteMulti of one key, a MultiError unwrapped to its element 0
DeleteReturn(r) == [multi |-> [err |-> r.err, keys |-> <<>>]] @@ [r EXCEPT !.err = Unwrap(r.err)]
Delete(m, s, key, delOk, storeOk) == DeleteReturn(DeleteMulti(m, s, <<key>>, delOk, storeOk))

(***************************************************************************)
(* The state machine.  A caller issues one call at a time and takes its    *)
(* result (Return) before the next one; between calls the test harness may *)
(* delete an entity directly in the datastore and memcache may drop an     *)
(* item.  A run works with the records of one of the two test types.       *)
(***************************************************************************)
NoValues == Values("", <<>>)
NoSnapshot == [store |-> <<>>, memcache |-> <<>>]
Snapshot == [store |-> store, memcache |-> memcache]
NoMulti == [err |-> Nil, keys |-> <<>>]
Idle ==
    [op |-> "idle", keys |-> <<>>, src |-> NoValues, retKeys |-> <<>>, dst |-> NoValues,
     err |-> Nil, multi |-> NoMulti, items |-> <<>>, calls |-> <<>>, log |-> <<>>,
     pre |-> NoSnapshot, post |-> NoSnapshot]

\* the record of a call: arguments, results, for Get, Put and Delete the
\* results of the batch call underneath (multi), the backend calls it issued,
\* what it logged, and the backends before and after it
Call(op, keys, src, retKeys, dst, r, after) ==
    [op |-> op, keys |-> keys, src |-> src, retKeys |-> retKeys, dst |-> dst,
     err |-> r.err, multi |-> IF "multi" \in DOMAIN r THEN r.multi ELSE NoMulti,
     items |-> <<>>, calls |-> r.calls, log |-> r.log, pre |-> Snapshot, post |-> after]

KeySeqs == UNION {[1..n -> KeysOf(testType)] : n \in 0..MaxBatch}
ZeroValues(n) == Values(SliceOf(testType), [i \in 1..n |-> Zero(testType)])

\* arguments that are no valid src or dst: an int, and a []int with one
\* element per key
BadValues(n) == {Values("int", <<>>), Values("[]int", [i \in 1..n |-> IntValue])}
\* the dst arguments of a GetMulti of n keys and the src arguments of a
\* PutMulti: slices of the test type of any length, and the bad ones
DstArgs(n) == {ZeroValues(k) : k \in 0..MaxBatch} \cup BadValues(n)
SrcArgs(n) ==
    {Values(SliceOf(testType), elems) :
        elems \in UNION {[1..k -> Records(testType)] : k \in 0..MaxBatch}}
    \cup BadValues(n)
Free == {k \in CompleteKeys : k \notin DOMAIN store /\ Encode(k) \notin DOMAIN memcache}
Without(f, S) == [k \in DOMAIN f \ S |-> f[k]]
Touched(keys) == Range(keys) \cap CompleteKeys

\* the history after a Put call of src that returned retKeys and err
PutHistory(src, retKeys, err) ==
    IF err # Nil THEN [lastPut |-> lastPut, deleted |-> deleted]
    ELSE LET last(k) == Max({i \in 1..Len(retKeys) : retKeys[i] = k}) IN
         [lastPut |-> [k \in DOMAIN lastPut \cup Range(retKeys) |->
                          IF k \in Range(retKeys) THEN src.elems[last(k)] ELSE lastPut[k]],
          deleted |-> deleted \ Range(retKeys)]

\* the history after a Delete call of keys that returned err
DeleteHistory(keys, err) ==
    IF err # Nil THEN [lastPut |-> lastPut, deleted |-> deleted]
    ELSE [lastPut |-> Without(lastPut, Touched(keys)),
          deleted |-> deleted \cup Touched(keys)]

\* encode or decode of a record of n properties, as its goroutine starts:
\* the property channel c (its length), the error channel errc (its
\* content), donec, the properties sent and received so far, where the
\* goroutine and the caller stand, and the results err1, err and (of encode)
\* b. gobOk says
\* whether gob succeeds; failAfter is the number of properties after which
\* the record's Load or Save returns an error (-1: it does not)
Task(fn, n, gobOk, failAfter) ==
    [fn |-> fn, n |-> n, gobOk |-> gobOk, failAfter |-> failAfter,
     c |-> 0, closed |-> FALSE, errc |-> <<>>, donec |-> FALSE,
     sent |-> 0, recv |-> 0,
     goroutine |-> IF fn = "decode" THEN "decode" ELSE "range",
     pc |-> IF fn = "decode" THEN "load" ELSE "save",
     err1 |-> Nil, err |-> Nil, b |-> NilBytes]

\* no encode or decode is being followed
NoTask == [Task("none", 0, TRUE, -1) EXCEPT !.goroutine = "none", !.pc = "none"]

\* no checkMultiArg call is being followed
NoArg == [v |-> [type |-> NoType], checked |-> FALSE, m |-> multiArgTypeInvalid]

Init ==
    /\ testType \in Kinds
    /\ store = <<>>
    /\ memcache = <<>>
    /\ lastPut = <<>>
    /\ deleted = {}
    /\ call = Idle
    /\ task = NoTask
    /\ arg = NoArg
    /\ run = <<>>

\* the effect of a call that returned r: the backends it leaves, the history
\* h after it, and its record
Effect(op, keys, src, retKeys, dst, r, h) ==
    /\ store' = r.store
    /\ memcache' = r.memcache
    /\ lastPut' = h.lastPut
    /\ deleted' = h.deleted
    /\ call' = Call(op, keys, src, retKeys, dst, r,
                    [store |-> r.store, memcache |-> r.memcache])
    /\ UNCHANGED <<testType, task, arg, run>>

NoHistory == [lastPut |-> lastPut, deleted |-> deleted]
PutEffect(op, keys, src, r) ==
    Effect(op, keys, src, r.keys, NoValues, r, PutHistory(src, r.keys, r.err))
GetEffect(op, keys, dst, r) ==
    Effect(op, keys, dst, <<>>, r.dst, r, NoHistory)
DeleteEffect(op, keys, r) ==
    Effect(op, keys, NoValues, <<>>, NoValues, r, DeleteHistory(keys, r.err))

PutMultiCall ==
    /\ call = Idle
    /\ \E keys \in KeySeqs : \E src \in SrcArgs(Len(keys)) :
       \E storeOk \in BOOLEAN, setOk \in BOOLEAN :
        /\ CanCompleteKey(keys, Free)
        /\ PutEffect("PutMulti", keys, src,
                     PutMulti(memcache, store, keys, src, storeOk, setOk, Free))

PutCall ==
    /\ call = Idle
    /\ \E key \in KeysOf(testType) : \E rec \in Records(testType) :
       \E storeOk \in BOOLEAN, setOk \in BOOLEAN :
        /\ CanCompleteKey(<<key>>, Free)
        /\ PutEffect("Put", <<key>>, Values("[]interface{}", <<rec>>),
                     Put(memcache, store, key, rec, storeOk, setOk, Free))

GetMultiCall ==
    /\ call = Idle
    /\ \E keys \in KeySeqs : \E dst \in DstArgs(Len(keys)) :
       \E getOk \in BOOLEAN, storeOk \in BOOLEAN, setOk \in BOOLEAN :
        GetEffect("GetMulti", keys, dst,
                  GetMulti(memcache, store, keys, dst, getOk, storeOk, setOk))

GetCall ==
    /\ call = Idle
    /\ \E key \in KeysOf(testType) :
       \E getOk \in BOOLEAN, storeOk \in BOOLEAN, setOk \in BOOLEAN :
        GetEffect("Get", <<key>>, Values("[]interface{}", <<Zero(testType)>>),
                  Get(memcache, store, key, Zero(testType), getOk, storeOk, setOk))

DeleteMultiCall ==
    /\ call = Idle
    /\ \E keys \in KeySeqs : \E delOk \in BOOLEAN, storeOk \in BOOLEAN :
        DeleteEffect("DeleteMulti", keys, DeleteMulti(memcache, store, keys, delOk, storeOk))

DeleteCall ==
    /\ call = Idle
    /\ \E key \in KeysOf(testType) : \E delOk \in BOOLEAN, storeOk \in BOOLEAN :
        DeleteEffect("Delete", <<key>>, Delete(memcache, store, key, delOk, storeOk))

\* the caller takes the result of its call
Return ==
    /\ call # Idle
    /\ call' = Idle
    /\ UNCHANGED <<testType, store, memcache, lastPut, deleted, task, arg, run>>

\* the tests remove an entity from the datastore behind the package's back
DatastoreDelete ==
    /\ call = Idle
    /\ \E key \in DOMAIN store :
        /\ store' = Without(store, {key})
        /\ lastPut' = Without(lastPut, {key})
    /\ UNCHANGED <<testType, memcache, deleted, call, task, arg, run>>

\* the tests call encodeItems on its own
EncodeItemsCall ==
    /\ call = Idle
    /\ \E keys \in KeySeqs : \E elems \in [1..Len(keys) -> Records(testType)] :
        call' = [Idle EXCEPT !.op = "encodeItems", !.keys = keys,
                             !.src = Values(SliceOf(testType), elems),
                             !.items = encodeItems(keys, Values(SliceOf(testType), elems)).items,
                             !.err = encodeItems(keys, Values(SliceOf(testType), elems)).err]
    /\ UNCHANGED <<testType, store, memcache, lastPut, deleted, task, arg, run>>

\* memcache is shared: another writer may leave bytes under a key that are
\* not a gob of properties
Corrupt ==
    /\ call = Idle
    /\ \E k \in DOMAIN memcache :
        /\ memcache[k].valid
        /\ memcache' = [memcache EXCEPT ![k] = NilBytes]
    /\ UNCHANGED <<testType, store, lastPut, deleted, call, task, arg, run>>

\* memcache gives no durability: an item may be gone at any time
Evict ==
    /\ call = Idle
    /\ \E k \in DOMAIN memcache : memcache' = Without(memcache, {k})
    /\ UNCHANGED <<testType, store, lastPut, deleted, call, task, arg, run>>

Next ==
    \/ PutMultiCall
    \/ PutCall
    \/ GetMultiCall
    \/ GetCall
    \/ DeleteMultiCall
    \/ DeleteCall
    \/ Return
    \/ EncodeItemsCall
    \/ DatastoreDelete
    \/ Corrupt
    \/ Evict

Spec == Init /\ [][Next]_vars

(***************************************************************************)
(* encode and decode step by step: the caller and the goroutine it starts  *)
(* run side by side, joined by the property channel.                       *)
(***************************************************************************)
MaxProps == 34

\* make(chan datastore.Property, 32)
ChanCap == 32

CodecInit ==
    /\ testType \in Kinds
    /\ store = <<>>
    /\ memcache = <<>>
    /\ lastPut = <<>>
    /\ deleted = {}
    /\ call = Idle
    /\ arg = NoArg
    /\ run = <<>>
    /\ \E fn \in {"decode", "encode"}, n \in 0..MaxProps, gobOk \in BOOLEAN,
          failAfter \in {-1, 0, 1} :
        /\ failAfter <= n
        /\ task = Task(fn, n, gobOk, failAfter)

Step(t) ==
    /\ task' = t
    /\ UNCHANGED <<testType, store, memcache, call, lastPut, deleted, arg, run>>

\* gobToProperties: decoder.Decode of the bytes; an error goes to errc
GobToProperties ==
    /\ task.goroutine = "decode"
    /\ Step(IF task.gobOk THEN [task EXCEPT !.goroutine = "send"]
            ELSE [task EXCEPT !.errc = Append(@, ErrGob), !.goroutine = "close"])

\* gobToProperties: dst <- p, which waits while the channel is full
SendProperty ==
    /\ task.goroutine = "send"
    /\ task.sent < task.n
    /\ task.c < ChanCap
    /\ Step([task EXCEPT !.c = @ + 1, !.sent = @ + 1])

\* gobToProperties: errc <- nil after the last property
SendNil ==
    /\ task.goroutine = "send"
    /\ task.sent = task.n
    /\ Len(task.errc) < 1
    /\ Step([task EXCEPT !.errc = Append(@, Nil), !.goroutine = "close"])

\* gobToProperties: the deferred close(dst), with which the goroutine ends
CloseDst ==
    /\ task.goroutine = "close"
    /\ Step([task EXCEPT !.closed = TRUE, !.goroutine = "done"])

\* Load receives one property
LoadProperty ==
    /\ task.pc = "load"
    /\ task.recv # task.failAfter
    /\ task.c > 0
    /\ Step([task EXCEPT !.c = @ - 1, !.recv = @ + 1])

\* Load returns an error; decode returns it, its deferred function leaving
\* errc alone as err is not nil
LoadFails ==
    /\ task.pc = "load"
    /\ task.recv = task.failAfter
    /\ Step([task EXCEPT !.pc = "returned", !.err = ErrFieldMismatch])

\* Load finds the channel closed and empty and returns nil
LoadReturns ==
    /\ task.pc = "load"
    /\ task.recv # task.failAfter
    /\ task.c = 0
    /\ task.closed
    /\ Step([task EXCEPT !.pc = "defer"])

\* decode's deferred function: err = <-errc
DecodeReturns ==
    /\ task.pc = "defer"
    /\ task.errc # <<>>
    /\ Step([task EXCEPT !.err = Head(task.errc), !.errc = Tail(@), !.pc = "returned"])

\* Save sends one property, which waits while the channel is full
SaveProperty ==
    /\ task.pc = "save"
    /\ task.sent < task.n
    /\ task.sent # task.failAfter
    /\ task.c < ChanCap
    /\ Step([task EXCEPT !.c = @ + 1, !.sent = @ + 1])

\* Save returns, with an error or after its last property; it closes the
\* channel in either case, and encode goes on to <-donec
SaveReturns ==
    /\ task.pc = "save"
    /\ task.sent = task.n \/ task.sent = task.failAfter
    /\ Step([task EXCEPT !.closed = TRUE, !.pc = "wait",
                         !.err1 = IF task.sent = task.failAfter
                                  THEN ErrInvalidType ELSE Nil])

\* propertiesToGob receives one property
RangeProperty ==
    /\ task.goroutine = "range"
    /\ task.c > 0
    /\ Step([task EXCEPT !.c = @ - 1, !.recv = @ + 1])

\* a goroutine of encode that ends without close(donec)
PropertiesToGobWithoutClose ==
    /\ task.goroutine = "range"
    /\ task.c = 0
    /\ task.closed
    /\ Step([task EXCEPT !.b = Bytes(task.gobOk, [i \in 1..task.recv |-> i]),
                         !.err = IF task.gobOk THEN Nil ELSE ErrGob,
                         !.goroutine = "done"])

\* propertiesToGob finds the channel closed and empty and encodes what it
\* received; the goroutine sets err and ends with close(donec)
PropertiesToGob ==
    /\ task.goroutine = "range"
    /\ task.c = 0
    /\ task.closed
    /\ Step([task EXCEPT !.b = Bytes(task.gobOk, [i \in 1..task.recv |-> i]),
                         !.err = IF task.gobOk THEN Nil ELSE ErrGob,
                         !.donec = TRUE, !.goroutine = "done"])

\* an encode that returns the goroutine's b also when Save failed
EncodeReturnsPayload ==
    /\ task.pc = "wait"
    /\ task.donec
    /\ Step([task EXCEPT !.pc = "returned",
                         !.err = IF task.err1 # Nil THEN task.err1 ELSE @])

\* encode: after <-donec, return nil, err1 if Save failed, else the
\* goroutine's b and err
EncodeReturns ==
    /\ task.pc = "wait"
    /\ task.donec
    /\ Step([task EXCEPT !.pc = "returned",
                         !.b = IF task.err1 # Nil THEN NilBytes ELSE @,
                         !.err = IF task.err1 # Nil THEN task.err1 ELSE @])

CodecNext ==
    \/ GobToProperties
    \/ SendProperty
    \/ SendNil
    \/ CloseDst
    \/ LoadProperty
    \/ LoadFails
    \/ LoadReturns
    \/ DecodeReturns
    \/ SaveProperty
    \/ SaveReturns
    \/ RangeProperty
    \/ PropertiesToGob
    \/ EncodeReturns

CodecSpec == CodecInit /\ [][CodecNext]_vars

\* the Go scheduler runs every goroutine that can run: the caller of encode
\* or decode, and the goroutine it started, each take their next step when it
\* stays possible
CodecFairSpec ==
    /\ CodecSpec
    /\ WF_vars(SaveProperty \/ SaveReturns \/ EncodeReturns
               \/ LoadProperty \/ LoadFails \/ LoadReturns \/ DecodeReturns)
    /\ WF_vars(RangeProperty \/ PropertiesToGob
               \/ GobToProperties \/ SendProperty \/ SendNil \/ CloseDst)

(***************************************************************************)
(* The earlier revision of the package kept in src/unnamed/part_002: its   *)
(* cache returns its error, and PutMulti and GetMulti hand that error on.  *)
(* encodeItems, decodeItems, encode and decode are those of the current    *)
(* revision.                                                               *)
(***************************************************************************)
\* cache: one SetMulti of the encoded items, if there are any and encoding
\* did not fail; returns the error of encodeItems or of SetMulti
cache002(key, src, m, setOk) ==
    LET e == encodeItems(key, src)
        set == Len(e.items) > 0 /\ e.err = Nil
        s == memcacheSetMulti(m, e.items, setOk)
    IN  [memcache |-> IF set THEN s.memcache ELSE m,
         calls |-> IF set THEN <<BackendCall("memcache.SetMulti", s.err, <<>>)>> ELSE <<>>,
         err |-> IF set THEN s.err ELSE e.err]

\* GetMulti: errm of the lookup is dropped; after a datastore read that went
\* well the call returns what cache returned
GetMulti002(m, s, key, dst, getOk, storeOk, setOk) ==
    LET encodedKeys == encodeKeys(key)
        got == memcacheGetMulti(m, encodedKeys, getOk)
        read == datastoreGetMulti(s, key, dst, storeOk)
        cached == cache002(key, read.dst, m, setOk)
        decoded == decodeItems(key, got.itemMap, dst)
        lookup == BackendCall("memcache.GetMulti", got.err, <<>>)
        fetch == BackendCall("datastore.GetMulti", read.err, <<>>)
    IN  IF Cardinality(DOMAIN got.itemMap) # Len(key)
        THEN IF read.err # Nil
             THEN [err |-> read.err, dst |-> read.dst, store |-> s, memcache |-> m,
                   calls |-> <<lookup, fetch>>, log |-> <<>>]
             ELSE [err |-> cached.err, dst |-> read.dst, store |-> s,
                   memcache |-> cached.memcache,
                   calls |-> <<lookup, fetch>> \o cached.calls, log |-> <<>>]
        ELSE [err |-> decoded.err, dst |-> decoded.dst, store |-> s, memcache |-> m,
              calls |-> <<lookup>>, log |-> <<>>]

Get002(m, s, key, dst, getOk, storeOk, setOk) ==
    GetReturn(GetMulti002(m, s, <<key>>, Values("[]interface{}", <<dst>>), getOk, storeOk, setOk))

\* PutMulti: datastore.PutMulti; if it went well, cache of the keys it
\* returned, whose error is returned with the keys
PutMulti002(m, s, key, src, storeOk, setOk, free) ==
    LET put == datastorePutMulti(s, key, src, storeOk, free)
        cached == cache002(put.key, src, m, setOk)
        write == BackendCall("datastore.PutMulti", put.err, put.key)
    IN  IF put.err = Nil
        THEN [keys |-> put.key, err |-> cached.err, store |-> put.store,
              memcache |-> cached.memcache, calls |-> <<write>> \o cached.calls,
              log |-> <<>>, put |-> put]
        ELSE [keys |-> put.key, err |-> put.err, store |-> put.store,
              memcache |-> m, calls |-> <<write>>, log |-> <<>>, put |-> put]

\* Put: on any error of PutMulti a nil key and the (unwrapped) error
Put002(m, s, key, src, storeOk, setOk, free) ==
    PutReturn(PutMulti002(m, s, <<key>>, Values("[]interface{}", <<src>>), storeOk, setOk, free))

\* DeleteMulti: memcache.DeleteMulti, then datastore.DeleteMulti, whose error
\* is returned if there is one, else that of memcache.DeleteMulti
DeleteMulti002(m, s, key, delOk, storeOk) ==
    LET uncached == memcacheDeleteMulti(m, encodeKeys(key), delOk)
        removed == datastoreDeleteMulti(s, key, storeOk)
    IN  [err |-> IF removed.err # Nil THEN removed.err ELSE uncached.err,
         store |-> removed.store, memcache |-> uncached.memcache,
         calls |-> <<BackendCall("memcache.DeleteMulti", uncached.err, <<>>),
                     BackendCall("datastore.DeleteMulti", removed.err, <<>>)>>,
         log |-> <<>>]

Delete002(m, s, key, delOk, storeOk) ==
    DeleteReturn(DeleteMulti002(m, s, <<key>>, delOk, storeOk))

\* the slices of n records of the test type
Slices(n) == {Values(SliceOf(testType), elems) : elems \in [1..n -> Records(testType)]}

\* the datastore holds what datastore.PutMulti wrote, whatever the call returned
PutEffect002(op, keys, src, r) ==
    Effect(op, keys, src, r.keys, NoValues, r, PutHistory(src, r.put.key, r.put.err))

PutMultiCall002 ==
    /\ call = Idle
    /\ \E keys \in KeySeqs : \E src \in Slices(Len(keys)) :
       \E storeOk \in BOOLEAN, setOk \in BOOLEAN :
        /\ CanCompleteKey(keys, Free)
        /\ PutEffect002("PutMulti", keys, src,
                        PutMulti002(memcache, store, keys, src, storeOk, setOk, Free))

PutCall002 ==
    /\ call = Idle
    /\ \E key \in KeysOf(testType) : \E rec \in Records(testType) :
       \E storeOk \in BOOLEAN, setOk \in BOOLEAN :
        /\ CanCompleteKey(<<key>>, Free)
        /\ PutEffect002("Put", <<key>>, Values("[]interface{}", <<rec>>),
                        Put002(memcache, store, key, rec, storeOk, setOk, Free))

GetMultiCall002 ==
    /\ call = Idle
    /\ \E keys \in KeySeqs :
       \E getOk \in BOOLEAN, storeOk \in BOOLEAN, setOk \in BOOLEAN :
        GetEffect("GetMulti", keys, ZeroValues(Len(keys)),
                  GetMulti002(memcache, store, keys, ZeroValues(Len(keys)),
                              getOk, storeOk, setOk))

GetCall002 ==
    /\ call = Idle
    /\ \E key \in KeysOf(testType) :
       \E getOk \in BOOLEAN, storeOk \in BOOLEAN, setOk \in BOOLEAN :
        GetEffect("Get", <<key>>, Values("[]interface{}", <<Zero(testType)>>),
                  Get002(memcache, store, key, Zero(testType), getOk, storeOk, setOk))

\* the entities are gone when datastore.DeleteMulti went well, whatever the
\* call returned
DeleteEffect002(op, keys, r) ==
    Effect(op, keys, NoValues, <<>>, NoValues, r,
           DeleteHistory(keys, r.calls[2].err))

DeleteMultiCall002 ==
    /\ call = Idle
    /\ \E keys \in KeySeqs : \E delOk \in BOOLEAN, storeOk \in BOOLEAN :
        DeleteEffect002("DeleteMulti", keys,
                        DeleteMulti002(memcache, store, keys, delOk, storeOk))

DeleteCall002 ==
    /\ call = Idle
    /\ \E key \in KeysOf(testType) : \E delOk \in BOOLEAN, storeOk \in BOOLEAN :
        DeleteEffect002("Delete", <<key>>,
                        Delete002(memcache, store, key, delOk, storeOk))

Next002 ==
    \/ PutMultiCall002
    \/ PutCall002
    \/ GetMultiCall002
    \/ GetCall002
    \/ DeleteMultiCall002
    \/ DeleteCall002
    \/ Return
    \/ DatastoreDelete
    \/ Evict

Spec002 == Init /\ [][Next002]_vars

(***************************************************************************)
(* The revision kept in src/appengine.go from line 59: Put removes the     *)
(* keys it wrote from memcache instead of caching the records.  Its cache, *)
(* encodeKeys and decodeItems are not part of the file; GetMulti calls     *)
(* them as the revision of part_002 does.                                  *)
(***************************************************************************)
\* GetMulti: nil at once for no keys, else as in part_002
GetMultiInvalidate(m, s, key, dst, getOk, storeOk, setOk) ==
    IF Len(key) = 0
    THEN [err |-> Nil, dst |-> dst, store |-> s, memcache |-> m, calls |-> <<>>, log |-> <<>>]
    ELSE GetMulti002(m, s, key, dst, getOk, storeOk, setOk)

GetInvalidate(m, s, key, dst, getOk, storeOk, setOk) ==
    GetReturn(GetMultiInvalidate(m, s, <<key>>, Values("[]interface{}", <<dst>>),
                                 getOk, storeOk, setOk))

\* PutMulti: datastore.PutMulti, then memcache.DeleteMulti of the keys it
\* returned, whose error is dropped; returns what datastore.PutMulti returned
PutMultiInvalidate(m, s, key, src, storeOk, delOk, free) ==
    LET put == datastorePutMulti(s, key, src, storeOk, free)
        uncached == memcacheDeleteMulti(m, encodeKeys(put.key), delOk)
    IN  [keys |-> put.key, err |-> put.err, store |-> put.store,
         memcache |-> uncached.memcache,
         calls |-> <<BackendCall("datastore.PutMulti", put.err, put.key),
                     BackendCall("memcache.DeleteMulti", uncached.err, <<>>)>>,
         log |-> <<>>]

PutInvalidate(m, s, key, src, storeOk, delOk, free) ==
    PutReturn(PutMultiInvalidate(m, s, <<key>>, Values("[]interface{}", <<src>>),
                                 storeOk, delOk, free))

\* DeleteMulti and Delete: line for line those of part_002
DeleteMultiInvalidate(m, s, key, delOk, storeOk) == DeleteMulti002(m, s, key, delOk, storeOk)
DeleteInvalidate(m, s, key, delOk, storeOk) ==
    DeleteReturn(DeleteMultiInvalidate(m, s, <<key>>, delOk, storeOk))

PutMultiCallInvalidate ==
    /\ call = Idle
    /\ \E keys \in KeySeqs : \E src \in Slices(Len(keys)) :
       \E storeOk \in BOOLEAN, delOk \in BOOLEAN :
        /\ CanCompleteKey(keys, Free)
        /\ PutEffect("PutMulti", keys, src,
                     PutMultiInvalidate(memcache, store, keys, src, storeOk, delOk, Free))

PutCallInvalidate ==
    /\ call = Idle
    /\ \E key \in KeysOf(testType) : \E rec \in Records(testType) :
       \E storeOk \in BOOLEAN, delOk \in BOOLEAN :
        /\ CanCompleteKey(<<key>>, Free)
        /\ PutEffect("Put", <<key>>, Values("[]interface{}", <<rec>>),
                     PutInvalidate(memcache, store, key, rec, storeOk, delOk, Free))

GetMultiCallInvalidate ==
    /\ call = Idle
    /\ \E keys \in KeySeqs :
       \E getOk \in BOOLEAN, storeOk \in BOOLEAN, setOk \in BOOLEAN :
        GetEffect("GetMulti", keys, ZeroValues(Len(keys)),
                  GetMultiInvalidate(memcache, store, keys, ZeroValues(Len(keys)),
                                     getOk, storeOk, setOk))

GetCallInvalidate ==
    /\ call = Idle
    /\ \E key \in KeysOf(testType) :
       \E getOk \in BOOLEAN, storeOk \in BOOLEAN, setOk \in BOOLEAN :
        GetEffect("Get", <<key>>, Values("[]interface{}", <<Zero(testType)>>),
                  GetInvalidate(memcache, store, key, Zero(testType), getOk, storeOk, setOk))

DeleteMultiCallInvalidate ==
    /\ call = Idle
    /\ \E keys \in KeySeqs : \E delOk \in BOOLEAN, storeOk \in BOOLEAN :
        DeleteEffect002("DeleteMulti", keys,
                        DeleteMultiInvalidate(memcache, store, keys, delOk, storeOk))

DeleteCallInvalidate ==
    /\ call = Idle
    /\ \E key \in KeysOf(testType) : \E delOk \in BOOLEAN, storeOk \in BOOLEAN :
        DeleteEffect002("Delete", <<key>>,
                        DeleteInvalidate(memcache, store, key, delOk, storeOk))

NextInvalidate ==
    \/ PutMultiCallInvalidate
    \/ PutCallInvalidate
    \/ GetMultiCallInvalidate
    \/ GetCallInvalidate
    \/ DeleteMultiCallInvalidate
    \/ DeleteCallInvalidate
    \/ Return
    \/ Evict

SpecInvalidate == Init /\ [][NextInvalidate]_vars

(***************************************************************************)
(* The revision kept in src/unnamed/part_001: Put and PutMulti write to    *)
(* memcache before they write to the datastore, and items hold the gob of  *)
(* the record itself.                                                      *)
(***************************************************************************)
\* gob refuses a reflect.Value, a struct without exported fields
ErrGobValue == Error("gob: type reflect.Value has no exported fields")

\* encode: the gob of e
encode001(e) == [b |-> [valid |-> TRUE, value |-> e], err |-> Nil]

\* encodeItems: encode(v.Index(i)) is handed a reflect.Value, so the first
\* key that is not incomplete ends the walk with gob's error
encodeItems001(keys, values) ==
    IF \E i \in 1..Len(keys) : ~Incomplete(keys[i])
    THEN [items |-> <<>>, err |-> ErrGobValue]
    ELSE [items |-> <<>>, err |-> Nil]

\* datastore.Put: datastore.PutMulti of one key; a nil key with the
\* (unwrapped) error, else the completed key
datastorePut(s, key, src, ok, free) ==
    LET p == datastorePutMulti(s, <<key>>, Values("[]interface{}", <<src>>), ok, free)
    IN  [store |-> p.store, keys |-> IF p.err # Nil THEN <<>> ELSE <<p.key[1]>>,
         err |-> Unwrap(p.err)]

\* Put: unless the key is incomplete, memcache.Set of the encoded record, an
\* error logged; then the result of datastore.Put
Put001(m, s, key, src, storeOk, setOk, free) ==
    LET e == encode001(src)
        set == memcacheSetMulti(m, <<Item(Encode(key), e.b)>>, setOk)
        put == datastorePut(s, key, src, storeOk, free)
        write == BackendCall("datastore.Put", put.err, put.keys)
    IN  IF Incomplete(key)
        THEN [keys |-> put.keys, err |-> put.err, store |-> put.store, memcache |-> m,
              calls |-> <<write>>, log |-> <<>>]
        ELSE [keys |-> put.keys, err |-> put.err, store |-> put.store,
              memcache |-> set.memcache,
              calls |-> <<BackendCall("memcache.Set", set.err, <<>>), write>>,
              log |-> IF set.err # Nil THEN <<set.err>> ELSE <<>>]

\* PutMulti: encodeItems and, if it went well, memcache.SetMulti of the
\* items, an error logged; then the result of datastore.PutMulti
PutMulti001(m, s, keys, src, storeOk, setOk, free) ==
    LET e == encodeItems001(keys, src)
        set == memcacheSetMulti(m, e.items, setOk)
        err == IF e.err = Nil THEN set.err ELSE e.err
        put == datastorePutMulti(s, keys, src, storeOk, free)
        write == BackendCall("datastore.PutMulti", put.err, put.key)
    IN  [keys |-> put.key, err |-> put.err, store |-> put.store,
         memcache |-> IF e.err = Nil THEN set.memcache ELSE m,
         calls |-> (IF e.err = Nil THEN <<BackendCall("memcache.SetMulti", set.err, <<>>)>>
                    ELSE <<>>) \o <<write>>,
         log |-> IF err # Nil THEN <<err>> ELSE <<>>]

PutCall001 ==
    /\ call = Idle
    /\ \E key \in KeysOf(testType) : \E rec \in Records(testType) :
       \E storeOk \in BOOLEAN, setOk \in BOOLEAN :
        /\ CanCompleteKey(<<key>>, Free)
        /\ PutEffect("Put", <<key>>, Values("[]interface{}", <<rec>>),
                     Put001(memcache, store, key, rec, storeOk, setOk, Free))

PutMultiCall001 ==
    /\ call = Idle
    /\ \E keys \in KeySeqs : \E src \in Slices(Len(keys)) :
       \E storeOk \in BOOLEAN, setOk \in BOOLEAN :
        /\ CanCompleteKey(keys, Free)
        /\ PutEffect("PutMulti", keys, src,
                     PutMulti001(memcache, store, keys, src, storeOk, setOk, Free))

Next001 ==
    \/ PutCall001
    \/ PutMultiCall001
    \/ Return
    \/ DatastoreDelete
    \/ Evict

Spec001 == Init /\ [][Next001]_vars

(***************************************************************************)
(* checkMultiArg on its own, over the types of Go up to a nesting depth:   *)
(* named types of each kind with and without Load and Save methods, the    *)
(* pointers to them and the slices of them, and PropertyList.              *)
(***************************************************************************)
MaxDepth == 2   \* how deep pointers and slices nest in the types tried
BaseTypes ==
    {Type(k, NoType, r, "") : k \in {"int", "struct", "map"}, r \in {"none", "ptr", "value"}}
    \cup {Type("interface", NoType, r, "") : r \in {"none", "value"}}
    \cup {typeOfPropertyList}
RECURSIVE Types(_)
Types(d) ==
    IF d = 0 THEN BaseTypes
    ELSE LET S == Types(d - 1)
         IN  S \cup {PtrTo(t) : t \in S}
               \cup {Type("slice", t, r, "") : t \in S, r \in {"none", "ptr", "value"}}

InitCheckMultiArg ==
    /\ testType \in Kinds
    /\ store = <<>>
    /\ memcache = <<>>
    /\ lastPut = <<>>
    /\ deleted = {}
    /\ call = Idle
    /\ task = NoTask
    /\ arg \in {[NoArg EXCEPT !.v = [type |-> t]] : t \in Types(MaxDepth) \cup {NoType}}
    /\ run = <<>>

CheckMultiArgCall ==
    /\ ~arg.checked
    /\ arg' = [arg EXCEPT !.checked = TRUE, !.m = checkMultiArg(arg.v)]
    /\ UNCHANGED <<testType, store, memcache, call, lastPut, deleted, task, run>>

SpecCheckMultiArg == InitCheckMultiArg /\ [][CheckMultiArgCall]_vars

(***************************************************************************)
(* The tests of the codec: encodeItems of a batch given by value or by     *)
(* pointer, then decodeItems of its items into a destination of either     *)
(* shape.                                                                  *)
(***************************************************************************)
\* makeItemsMap: the items by the encoding of their keys, items[i] for keys[i]
makeItemsMap(keys, items) ==
    [e \in {Encode(keys[i]) : i \in 1..Len(keys)} |->
        items[Max({i \in 1..Len(keys) : Encode(keys[i]) = e})]]

\* a test: distinct complete keys, the records src of them as a []T or a []*T,
\* and a dst made as a []T, as a []*T of nil pointers (make) or as a []*T of
\* pointers to zero records
DecodeItemsCall ==
    /\ call = Idle
    /\ \E keys \in {ks \in KeySeqs : /\ \A i \in 1..Len(ks) : ks[i] \in CompleteKeys
                                     /\ \A i, j \in 1..Len(ks) : ks[i] = ks[j] => i = j} :
       \E elems \in [1..Len(keys) -> Records(testType)] :
       \E srcType \in {SliceOf(testType), SliceOf("*" \o testType)} :
       \E dst \in {ZeroValues(Len(keys)),
                   Values(SliceOf("*" \o testType), [i \in 1..Len(keys) |-> Zero(testType)]),
                   Values(SliceOf("*" \o testType), [i \in 1..Len(keys) |-> NilPointer(testType)])} :
         LET e == encodeItems(keys, Values(srcType, elems))
             d == decodeItems(keys, makeItemsMap(keys, e.items), dst)
         IN  /\ e.err = Nil
             /\ call' = [Idle EXCEPT !.op = "decodeItems", !.keys = keys,
                                     !.src = Values(srcType, elems), !.items = e.items,
                                     !.dst = d.dst, !.err = d.err]
    /\ UNCHANGED <<testType, store, memcache, lastPut, deleted, task, arg, run>>

\* cache on its own: any keys, a record or a value that does not encode for
\* each of them
CacheCall ==
    /\ call = Idle
    /\ \E keys \in KeySeqs : \E setOk \in BOOLEAN :
       \E elems \in [1..Len(keys) -> Records(testType) \cup {IntValue}] :
         LET src == Values("[]interface{}", elems)
             r == cache(keys, src, memcache, setOk)
         IN  /\ memcache' = r.memcache
             /\ call' = [Idle EXCEPT !.op = "cache", !.keys = keys, !.src = src,
                                     !.err = r.err, !.calls = r.calls, !.log = r.log,
                                     !.pre = Snapshot,
                                     !.post = [store |-> store, memcache |-> r.memcache]]
    /\ UNCHANGED <<testType, store, lastPut, deleted, task, arg, run>>

SpecDecodeItems == Init /\ [][DecodeItemsCall \/ CacheCall \/ Return]_vars

(***************************************************************************)
(* Two requests at once.  The package holds no lock and every call is a    *)
(* sequence of backend calls, so the backend calls of a Put or Delete and  *)
(* of a Get of the same key interleave in any order.  Both backends work.  *)
(***************************************************************************)
InitConcurrent ==
    /\ testType \in Kinds
    /\ lastPut = <<>>
    /\ deleted = {}
    /\ call = Idle
    /\ task = NoTask
    /\ arg = NoArg
    /\ \E key \in KeysOf(testType) \cap CompleteKeys :
       \E stored \in Records(testType), rec \in Records(testType) :
       \E op \in {"Put", "Delete"}, cached \in BOOLEAN :
         /\ store = datastorePutMulti(<<>>, <<key>>, Values("[]interface{}", <<stored>>),
                                      TRUE, {}).store
         /\ memcache = IF cached THEN (Encode(key) :> encode(stored).b) ELSE <<>>
         /\ run = [key |-> key, op |-> op, src |-> Values("[]interface{}", <<rec>>),
                   at |-> IF op = "Put" THEN "datastore.PutMulti" ELSE "memcache.DeleteMulti",
                   retKeys |-> <<>>, err |-> Nil,
                   get |-> [at |-> "memcache.GetMulti", hit |-> FALSE,
                            dst |-> Values("[]interface{}", <<Zero(testType)>>), err |-> Nil]]

\* the backend calls of Put, one at a time: datastore.PutMulti, then cache
PutStep ==
    /\ run # <<>>
    /\ run.op = "Put"
    /\ \/ /\ run.at = "datastore.PutMulti"
          /\ LET put == datastorePutMulti(store, <<run.key>>, run.src, TRUE, {})
             IN  /\ store' = put.store
                 /\ run' = [run EXCEPT !.at = "cache", !.retKeys = put.key, !.err = Unwrap(put.err)]
          /\ UNCHANGED memcache
       \/ /\ run.at = "cache"
          /\ memcache' = cache(run.retKeys, run.src, memcache, TRUE).memcache
          /\ run' = [run EXCEPT !.at = "returned"]
          /\ UNCHANGED store
    /\ UNCHANGED <<testType, call, lastPut, deleted, task, arg>>

\* the backend calls of Delete, one at a time: memcache.DeleteMulti, then
\* datastore.DeleteMulti
DeleteStep ==
    /\ run # <<>>
    /\ run.op = "Delete"
    /\ \/ /\ run.at = "memcache.DeleteMulti"
          /\ memcache' = memcacheDeleteMulti(memcache, encodeKeys(<<run.key>>), TRUE).memcache
          /\ run' = [run EXCEPT !.at = "datastore.DeleteMulti"]
          /\ UNCHANGED store
       \/ /\ run.at = "datastore.DeleteMulti"
          /\ LET removed == datastoreDeleteMulti(store, <<run.key>>, TRUE)
             IN  /\ store' = removed.store
                 /\ run' = [run EXCEPT !.at = "returned", !.err = Unwrap(removed.err)]
          /\ UNCHANGED memcache
    /\ UNCHANGED <<testType, call, lastPut, deleted, task, arg>>

\* the backend calls of Get, one at a time: memcache.GetMulti and, when the
\* key is not cached, datastore.GetMulti and then cache of what was read
GetStep ==
    /\ run # <<>>
    /\ \/ /\ run.get.at = "memcache.GetMulti"
          /\ LET got == memcacheGetMulti(memcache, encodeKeys(<<run.key>>), TRUE)
                 decoded == decodeItems(<<run.key>>, got.itemMap, run.get.dst)
             IN  run' = IF Cardinality(DOMAIN got.itemMap) # Len(<<run.key>>)
                        THEN [run EXCEPT !.get.at = "datastore.GetMulti"]
                        ELSE [run EXCEPT !.get.at = "returned", !.get.hit = TRUE,
                                         !.get.dst = decoded.dst,
                                         !.get.err = Unwrap(decoded.err)]
          /\ UNCHANGED memcache
       \/ /\ run.get.at = "datastore.GetMulti"
          /\ LET read == datastoreGetMulti(store, <<run.key>>, run.get.dst, TRUE)
             IN  run' = [run EXCEPT !.get.at = IF read.err # Nil THEN "returned" ELSE "cache",
                                    !.get.dst = read.dst, !.get.err = Unwrap(read.err)]
          /\ UNCHANGED memcache
       \/ /\ run.get.at = "cache"
          /\ memcache' = cache(<<run.key>>, run.get.dst, memcache, TRUE).memcache
          /\ run' = [run EXCEPT !.get.at = "returned"]
    /\ UNCHANGED <<testType, store, call, lastPut, deleted, task, arg>>

SpecConcurrent == InitConcurrent /\ [][PutStep \/ DeleteStep \/ GetStep]_vars

(***************************************************************************)
(* What the claims speak of, read off the record of the last call.         *)
(***************************************************************************)
\* the call has a batch for its arguments: a src or dst that checkMultiArg
\* accepts, with one element per key
IsBatch ==
    /\ checkMultiArg(ValueOf(call.src)) # multiArgTypeInvalid
    /\ Len(call.src.elems) = Len(call.keys)
IsGet == call.op \in {"Get", "GetMulti"} /\ IsBatch
IsPut == call.op \in {"Put", "PutMulti"}
IsDelete == call.op \in {"Delete", "DeleteMulti"}
Positions == 1..Len(call.keys)

\* the calls to a backend function within the last call, and their results
CallsTo(fn) == {i \in 1..Len(call.calls) : call.calls[i].fn = fn}
Called(fn) == CallsTo(fn) # {}
ResultOf(fn) == call.calls[CHOOSE i \in CallsTo(fn) : TRUE]
Failed(fn) == Called(fn) /\ ResultOf(fn).err # Nil

\* the cache entry of the i-th key before the call, if there is one
Cached(i) == Encode(call.keys[i]) \in DOMAIN call.pre.memcache
Entry(i) == call.pre.memcache[Encode(call.keys[i])]
Stored(i) == call.keys[i] \in DOMAIN call.pre.store

\* C1: a Get or GetMulti of keys that were Put with success, with no Put or
\* Delete of them since, returns no error and destinations equal to the
\* records that were Put, whether or not the cache still holds their entries
\* (said of plain records, of entries no other writer has overwritten, and of
\* a store that answers if it is read)
C1_RoundTrip ==
    (/\ testType = "Struct"
     /\ IsGet
     /\ Positions # {}
     /\ \A i \in Positions : call.keys[i] \in DOMAIN lastPut
     /\ \A i \in Positions : Cached(i) => Entry(i).valid
     /\ ~Failed("datastore.GetMulti") \/ ResultOf("datastore.GetMulti").err # ErrDatastoreCall)
    => /\ call.err = Nil
       /\ \A i \in Positions : call.dst.elems[i] = lastPut[call.keys[i]]

\* the keys of the call are distinct, each has a cache entry written by the
\* package, and the datastore holds none of them (any more)
Distinct == \A i, j \in Positions : call.keys[i] = call.keys[j] => i = j
AllCached == \A i \in Positions : Cached(i) /\ Entry(i).valid
OnlyCached == IsGet /\ Positions # {} /\ Distinct /\ AllCached /\ \A i \in Positions : ~Stored(i)

\* the i-th destination holds the record the cache entry of the i-th key was
\* encoded from
HoldsOriginal(i) == encode(call.dst.elems[i]).b = Entry(i)
\* the i-th destination holds what decode makes of the cache entry of the
\* i-th key
HoldsDecoded(i) == call.dst.elems[i] = decode(Entry(i), call.src.elems[i]).dst

\* C2 as the spec states it: a Get or GetMulti of distinct keys that all have
\* a cache entry, their entities deleted from the datastore behind the
\* package's back, returns no error and the original value at every position,
\* and does not read the datastore
C2_CachePrecedence ==
    OnlyCached => /\ call.err = Nil
                  /\ ~Called("datastore.GetMulti")
                  /\ \A i \in Positions : HoldsOriginal(i)

\* C2, amended: when moreover the memcache lookup itself succeeds, the call
\* returns no error, issues no backend call but the lookup, and every
\* destination holds what decode makes of its key's cache entry; for plain
\* records that is the record the entry was encoded from
C2_CachePrecedenceOfLookup ==
    (OnlyCached /\ ~Failed("memcache.GetMulti"))
    => /\ call.err = Nil
       /\ Len(call.calls) = 1 /\ Called("memcache.GetMulti")
       /\ call.post = call.pre
       /\ \A i \in Positions : HoldsDecoded(i)
       /\ testType = "Struct" => \A i \in Positions : HoldsOriginal(i)

\* a GetMulti of two keys served from memcache after both entities were
\* deleted from the datastore
C2_Witness ==
    /\ OnlyCached /\ ~Failed("memcache.GetMulti")
    /\ call.op = "GetMulti" /\ Len(call.keys) = 2
    /\ call.err = Nil

\* the properties the datastore saves for a record, and the record it loads
\* from properties into a destination
SavedOf(rec) == IF IsPropertyLoadSaver(rec) THEN Save(rec).props ELSE SaveStruct(rec).props
LoadedOf(dst, props) ==
    IF IsPropertyLoadSaver(dst) THEN Load(dst, props).dst ELSE LoadStruct(dst, props).dst

\* the datastore answered the read of the call, if the call read it
StoreAnswers ==
    Called("datastore.GetMulti") => ResultOf("datastore.GetMulti").err # ErrDatastoreCall

\* what Put and PutMulti return of the keys the datastore returned
Returned(keys) == IF call.op = "Put" THEN <<keys[1]>> ELSE keys

\* C3: whenever the datastore write of a Put or PutMulti succeeds, the call
\* returns a nil error and the keys the datastore returned, all complete and
\* all stored, whether the cache write succeeds or fails; and a later Get or
\* GetMulti of keys that were Put and have no cache entry reads the datastore,
\* if it answers, and returns a nil error and the stored records, whether the
\* cache lookup and the cache write of the Get succeed or fail
C3_WriteDurability ==
    /\ (IsPut /\ ~Failed("datastore.PutMulti"))
       => /\ call.err = Nil
          /\ call.retKeys = Returned(ResultOf("datastore.PutMulti").keys)
          /\ Len(call.retKeys) = Len(call.keys)
          /\ \A i \in Positions : /\ call.retKeys[i] \in CompleteKeys
                                  /\ call.retKeys[i] \in DOMAIN call.post.store
    /\ (/\ IsGet /\ Positions # {} /\ StoreAnswers
        /\ \A i \in Positions : call.keys[i] \in DOMAIN lastPut /\ ~Cached(i))
       => /\ call.err = Nil
          /\ Called("datastore.GetMulti")
          /\ \A i \in Positions :
                call.dst.elems[i] = LoadedOf(call.src.elems[i], SavedOf(lastPut[call.keys[i]]))

\* a Put whose cache write failed and that returned a key and no error
C3_Witness ==
    /\ call.op = "Put"
    /\ Failed("memcache.SetMulti")
    /\ call.err = Nil /\ Len(call.retKeys) = 1
    /\ call.post.memcache = call.pre.memcache

\* a Get of a key that was Put, with no cache entry and every cache call failing
C3_GetReached ==
    /\ call.op = "Get" /\ call.keys[1] \in DOMAIN lastPut /\ ~Cached(1)
    /\ Failed("memcache.GetMulti") /\ Failed("memcache.SetMulti")
    /\ call.err = Nil

\* the error a batch call returns when no entity of its keys exists
NoneExists == MultiError([i \in Positions |-> ErrNoSuchEntity])

\* C4: after a Delete or DeleteMulti of keys returned nil, whatever the cache
\* delete did, a Get of such a key with no Put of it since returns
\* ErrNoSuchEntity, and a GetMulti of such keys a MultiError that is
\* ErrNoSuchEntity at every position (said of a datastore that answers if it
\* is read)
C4_DeleteThenGet ==
    (/\ IsGet /\ Positions # {} /\ StoreAnswers
     /\ \A i \in Positions : call.keys[i] \in deleted)
    => call.err = IF call.op = "Get" THEN ErrNoSuchEntity ELSE NoneExists

\* a GetMulti of more than one key that read the datastore, where the
\* datastore holds the entities of all keys but the one at position i
OneMissing(i) ==
    /\ IsGet /\ call.op = "GetMulti" /\ Len(call.keys) > 1
    /\ Called("datastore.GetMulti")
    /\ i \in Positions /\ ~Stored(i)
    /\ \A j \in Positions \ {i} : Stored(j)

\* the result C5 describes: ErrNoSuchEntity at position i and nil at every
\* other, whose destinations hold the stored records
OnlyMissing(i) ==
    /\ call.err = MultiError([j \in Positions |-> IF j = i THEN ErrNoSuchEntity ELSE Nil])
    /\ \A j \in Positions \ {i} :
          call.dst.elems[j] = LoadedOf(call.src.elems[j], call.pre.store[call.keys[j]])

\* C5 as the spec states it: a GetMulti of N > 1 keys that is not served from
\* the cache, exactly one key missing from the datastore, returns a MultiError
\* whose only non-nil entry is ErrNoSuchEntity at the position of that key,
\* and the other destinations hold the stored records
C5_PartialFailureIsolation == \A i \in Positions : OneMissing(i) => OnlyMissing(i)

\* C5, amended: so it is when the missing key is a valid, complete key and
\* the datastore answers the read
C5_PartialFailureOfValidKeys ==
    \A i \in Positions :
        (OneMissing(i) /\ call.keys[i] \in CompleteKeys /\ StoreAnswers) => OnlyMissing(i)

\* a GetMulti of two valid keys, the second missing from the datastore and
\* the first loaded from it
C5_Witness ==
    /\ OneMissing(2) /\ call.keys[2] \in CompleteKeys /\ StoreAnswers
    /\ call.dst.elems[1] # call.src.elems[1]
    /\ IsMultiError(call.err)

IsSingle == call.op \in {"Get", "Put", "Delete"}

\* the error of the batch call under a Get, Put or Delete is the error of the
\* datastore call if there was one, else what decoding the cache entry gave
BatchError ==
    IF call.op = "Put" THEN ResultOf("datastore.PutMulti").err
    ELSE IF call.op = "Delete" THEN ResultOf("datastore.DeleteMulti").err
    ELSE IF Called("datastore.GetMulti") THEN ResultOf("datastore.GetMulti").err
    ELSE ErrorOf(<<decode(Entry(1), call.src.elems[1]).err>>)

\* C6: Get, Put and Delete never return a MultiError: when the batch call of
\* one element underneath returns a MultiError they return its element 0, and
\* any other error as it is; Put returns no key with an error and key 0 of the
\* batch call without one
C6_SingleUnwrap ==
    IsSingle
    => /\ ~IsMultiError(call.err)
       /\ call.multi.err = BatchError
       /\ IsMultiError(BatchError) => call.err = BatchError.me[1]
       /\ ~IsMultiError(BatchError) => call.err = BatchError
       /\ call.op = "Put" =>
             call.retKeys = IF call.err # Nil THEN <<>> ELSE <<call.multi.keys[1]>>

\* a Get whose GetMulti returned a MultiError of one ErrNoSuchEntity
C6_Witness ==
    /\ call.op = "Get"
    /\ call.multi.err = MultiError(<<ErrNoSuchEntity>>)
    /\ call.err = ErrNoSuchEntity

\* the error of the batch call at position i: the i-th element of a
\* MultiError, nil when the call returned no error
ErrAt(i) ==
    LET e == IF IsSingle THEN call.multi.err ELSE call.err
    IN  IF IsMultiError(e) THEN e.me[i] ELSE e

\* the last position at which PutMulti returned the key it returned at i
LastOf(i) == Max({j \in Positions : call.retKeys[j] = call.retKeys[i]})

\* C7: a Get or GetMulti served from the cache decodes destination i from the
\* cache entry of Encode(keys[i]) and reports at position i the error of
\* decoding that entry; a PutMulti that succeeds returns at position i the key
\* under which it stored record i: keys[i] itself if complete, else a fresh
\* complete key of the same kind
C7_BatchOrder ==
    /\ (IsGet /\ Positions # {} /\ ~Called("datastore.GetMulti"))
       => \A i \in Positions :
             /\ Cached(i)
             /\ call.dst.elems[i] = decode(Entry(i), call.src.elems[i]).dst
             /\ ErrAt(i) = decode(Entry(i), call.src.elems[i]).err
    /\ (call.op = "PutMulti" /\ call.err = Nil)
       => /\ Len(call.retKeys) = Len(call.keys)
          /\ \A i \in Positions :
                /\ ~Incomplete(call.keys[i]) => call.retKeys[i] = call.keys[i]
                /\ Incomplete(call.keys[i]) =>
                      /\ call.retKeys[i] \in CompleteKeys \ DOMAIN call.pre.store
                      /\ call.retKeys[i].kind = call.keys[i].kind
                /\ call.post.store[call.retKeys[i]] = SavedOf(call.src.elems[LastOf(i)])
                /\ ~Failed("memcache.SetMulti") =>
                      call.post.memcache[Encode(call.retKeys[i])]
                          = encode(call.src.elems[LastOf(i)]).b

\* a GetMulti of two keys served from the cache, the entry of the second key
\* not decodable and the first destination decoded
C7_Witness ==
    /\ call.op = "GetMulti" /\ Len(call.keys) = 2 /\ ~Called("datastore.GetMulti")
    /\ ErrAt(1) = Nil /\ ErrAt(2) = ErrGob
    /\ call.dst.elems[1] # call.src.elems[1]

\* a PutMulti of two records under an incomplete and a complete key
C7_PutReached ==
    /\ call.op = "PutMulti" /\ call.err = Nil /\ Len(call.keys) = 2
    /\ Incomplete(call.keys[1]) /\ ~Incomplete(call.keys[2])
    /\ call.src.elems[1] # call.src.elems[2]

\* the positions of the complete keys of the call, and the n-th of them
CompletePositions == {i \in Positions : ~Incomplete(call.keys[i])}
NthComplete(n) ==
    CHOOSE i \in CompletePositions : Cardinality({j \in CompletePositions : j < i}) = n - 1

\* C8: in every reachable state no cache entry is keyed by the encoding of an
\* incomplete key, and encodeItems returns items for the complete keys only:
\* one item per complete key, in the order of the keys, keyed by the encoded
\* key and holding the encoded record of its position
C8_IncompleteSkip ==
    /\ \A key \in KeysOf(testType) : Incomplete(key) => Encode(key) \notin DOMAIN memcache
    /\ (call.op = "encodeItems" /\ call.err = Nil)
       => /\ Len(call.items) = Cardinality(CompletePositions)
          /\ \A n \in 1..Len(call.items) :
                call.items[n] = Item(Encode(call.keys[NthComplete(n)]),
                                     encode(call.src.elems[NthComplete(n)]).b)

\* encodeItems called with an incomplete key before a complete one: one item
C8_Witness ==
    /\ call.op = "encodeItems" /\ Len(call.keys) = 2
    /\ Incomplete(call.keys[1]) /\ ~Incomplete(call.keys[2])
    /\ Len(call.items) = 1 /\ call.items[1].Key = Encode(call.keys[2])

\* what Get, Put and Delete return of an error of the batch call
Unwrapped(err) == IF IsSingle /\ IsMultiError(err) THEN err.me[1] ELSE err

\* C9: when the datastore write of a Put or PutMulti fails, the call returns
\* that error (Put its element 0 if it is a MultiError) and no key, issues no
\* memcache.SetMulti, and leaves the cache as it was
C9_PutFailureLeavesCache ==
    (IsPut /\ Failed("datastore.PutMulti"))
    => /\ call.err = Unwrapped(ResultOf("datastore.PutMulti").err)
       /\ call.retKeys = <<>>
       /\ ~Called("memcache.SetMulti")
       /\ call.post.memcache = call.pre.memcache

\* a PutMulti of two complete keys, one of them cached, whose datastore write
\* failed
C9_Witness ==
    /\ call.op = "PutMulti" /\ Len(call.keys) = 2
    /\ \A i \in Positions : call.keys[i] \in CompleteKeys
    /\ Cached(1)
    /\ ResultOf("datastore.PutMulti").err = ErrDatastoreCall
    /\ call.err = ErrDatastoreCall

\* C10: a Delete or DeleteMulti always calls memcache.DeleteMulti and then
\* datastore.DeleteMulti, and returns the result of the datastore delete (Delete
\* its element 0 if it is a MultiError) whatever the cache delete returned; an
\* error of the cache delete, a miss included, is logged and nothing else; after
\* a nil result the datastore holds none of the keys
C10_DeleteStoreAuthoritative ==
    IsDelete
    => /\ Len(call.calls) = 2
       /\ call.calls[1].fn = "memcache.DeleteMulti"
       /\ call.calls[2].fn = "datastore.DeleteMulti"
       /\ call.err = Unwrapped(call.calls[2].err)
       /\ call.log = IF call.calls[1].err # Nil THEN <<call.calls[1].err>> ELSE <<>>
       /\ call.err = Nil => \A i \in Positions : call.keys[i] \notin DOMAIN call.post.store

\* a DeleteMulti of a stored key whose cache delete failed and that returned nil
C10_Witness ==
    /\ call.op = "DeleteMulti" /\ Len(call.keys) = 1 /\ Stored(1)
    /\ call.calls[1].err = ErrMemcacheCall
    /\ call.err = Nil

\* a Delete of a key that is not cached whose datastore delete failed
C10_MissReached ==
    /\ call.op = "Delete"
    /\ call.calls[1].err = MultiError(<<ErrCacheMiss>>)
    /\ call.err = ErrDatastoreCall

\* what datastore.GetMulti returns for the keys and destinations of the call
StoreRead ==
    datastoreGetMulti(call.pre.store, call.keys, call.src,
                      ~Called("datastore.GetMulti") \/ StoreAnswers)

\* the errors the memcache calls of the call returned, in order
CacheErrors ==
    SelectSeq([i \in 1..Len(call.calls) |->
                  IF call.calls[i].fn = "datastore.GetMulti" THEN Nil ELSE call.calls[i].err],
              LAMBDA e : e # Nil)

\* C11: a Get or GetMulti whose cache lookup or cache re-population fails
\* returns the error and leaves the destinations that datastore.GetMulti
\* returns for its keys (Get element 0 of a MultiError); it reads the
\* datastore unless the batch is empty; the cache errors are logged, in order,
\* and the datastore is left as it was
C11_CacheFailureNotFatal ==
    (IsGet /\ (Failed("memcache.GetMulti") \/ Failed("memcache.SetMulti")))
    => /\ Positions # {} => Called("datastore.GetMulti")
       /\ call.err = Unwrapped(StoreRead.err)
       /\ call.dst = StoreRead.dst
       /\ call.log = CacheErrors
       /\ call.post.store = call.pre.store

\* a GetMulti of two stored keys whose cache lookup and re-population both
\* failed and that returned nil with both destinations loaded
C11_Witness ==
    /\ call.op = "GetMulti" /\ Len(call.keys) = 2
    /\ Failed("memcache.GetMulti") /\ Failed("memcache.SetMulti")
    /\ call.err = Nil
    /\ \A i \in Positions : call.dst.elems[i] # call.src.elems[i]
    /\ Len(call.log) = 2

\* the last position of the key at position i in the batch
LastKey(i) == Max({j \in Positions : call.keys[j] = call.keys[i]})

\* some key of the batch has no cache entry before the call
SomeMiss == \E i \in Positions : ~Cached(i)

C12_ServedReached ==
    /\ call.op = "GetMulti" /\ Len(call.keys) = 2 /\ Distinct
    /\ ~SomeMiss /\ ~Called("datastore.GetMulti") /\ call.err = Nil

\* the record of the last position at which a Put or PutMulti returned the
\* key it returned at position i
PutRecord(i) == call.src.elems[LastOf(i)]

BatchResult == IF IsSingle THEN call.multi.err ELSE call.err

\* the call was served by decodeItems: a Get or GetMulti that did not read
\* the datastore
Decoded == IsGet /\ ~Called("datastore.GetMulti")

\* C14: a batch call never returns a MultiError whose entries are all nil: a
\* MultiError has one entry per key and at least one that is not nil; and a
\* call served by decodeItems returns a MultiError if and only if decoding
\* the entry of some position gives an error, and nil otherwise
C14_MultiResultShape ==
    /\ IsMultiError(BatchResult)
       => /\ Len(BatchResult.me) = Len(call.keys)
          /\ \E i \in Positions : BatchResult.me[i] # Nil
    /\ Decoded
       => /\ IsMultiError(BatchResult)
             <=> \E i \in Positions : decode(Entry(i), call.src.elems[i]).err # Nil
          /\ ~IsMultiError(BatchResult) => BatchResult = Nil

\* a GetMulti of two keys served from the cache, every position decoded: nil
C14_Witness ==
    /\ call.op = "GetMulti" /\ Len(call.keys) = 2 /\ Decoded
    /\ \A i \in Positions : call.dst.elems[i] # call.src.elems[i]
    /\ call.err = Nil

IsMulti == call.op \in {"GetMulti", "PutMulti"}

\* the backend calls of the call that went out to a backend: all but the
\* datastore calls that the datastore package rejected for their arguments
Issued == {i \in 1..Len(call.calls) : call.calls[i].err \notin {ErrDifferentLength, ErrInvalidType}}

\* the call returned an error: it neither returned nil nor panicked
ReturnedError == call.err \notin {Nil, Panic}

\* C15: a GetMulti or PutMulti whose keys and records differ in length
\* returns an error, issues no cache call and no datastore call before it, and
\* changes neither the cache nor the datastore
C15_EqualLengthCheck ==
    (/\ IsMulti
     /\ checkMultiArg(ValueOf(call.src)) # multiArgTypeInvalid
     /\ Len(call.src.elems) # Len(call.keys))
    => /\ ReturnedError
       /\ Issued = {}
       /\ call.post = call.pre

\* C16: a GetMulti or PutMulti whose record argument checkMultiArg classifies as
\* invalid returns an error and issues no cache call and no datastore call
C16_ShapeCheck ==
    (IsMulti /\ checkMultiArg(ValueOf(call.src)) = multiArgTypeInvalid)
    => ReturnedError /\ Issued = {}

\* C17: a PutMulti or GetMulti of a zero-length batch returns success and
\* leaves the contents of the cache and of the datastore as they were
C17_ZeroLengthBatch ==
    (IsMulti /\ IsBatch /\ Len(call.keys) = 0)
    => call.err = Nil /\ call.post = call.pre

\* reached: a GetMulti of no keys whose cache lookup failed, with entries in
\* both tiers
C17_Witness ==
    /\ call.op = "GetMulti" /\ IsBatch /\ Len(call.keys) = 0
    /\ Failed("memcache.GetMulti")
    /\ DOMAIN call.pre.memcache # {} /\ DOMAIN call.pre.store # {}

\* reached: a PutMulti of no keys and no records, with entries in both tiers
C17_PutReached ==
    /\ call.op = "PutMulti" /\ IsBatch /\ Len(call.keys) = 0
    /\ DOMAIN call.pre.memcache # {} /\ DOMAIN call.pre.store # {}

\* the per-call maximum of the datastore that C18 speaks of (100), scaled to
\* lie below the largest batch a call is made with
maxBatch == MaxBatch - 1

\* the number of windows of at most maxBatch keys that n keys fill
Windows(n) == (n + maxBatch - 1) \div maxBatch

\* C18: a successful PutMulti of more keys than the datastore's per-call
\* maximum writes them in windows of at most that maximum, one
\* datastore.PutMulti per window, and returns the datastore's keys in the
\* positions of the batch
C18_LargeBatchSplitting ==
    (call.op = "PutMulti" /\ IsBatch /\ Len(call.keys) > maxBatch /\ call.err = Nil)
    => /\ \A i \in CallsTo("datastore.PutMulti") : Len(call.calls[i].keys) <= maxBatch
       /\ Cardinality(CallsTo("datastore.PutMulti")) = Windows(Len(call.keys))
       /\ Len(call.retKeys) = Len(call.keys)
       /\ \A i \in Positions : call.retKeys[i] \in DOMAIN call.post.store

\* C19: when encode or decode has returned, the goroutine it started has
\* ended; in particular gobToProperties is not left waiting to send on the
\* full property channel after Load returned an error
C19_CallScopedTasks ==
    task.pc = "returned" => task.goroutine = "done"

\* C20: in the revision of src/unnamed/part_002 a failure to populate the
\* cache fails neither Put nor Get: when the datastore write went well,
\* PutMulti returns nil and Put the key the datastore returned, and when the
\* datastore read of GetMulti's fallback went well, the call returns nil
C20_PopulationFailureNotFatal ==
    /\ (IsPut /\ ~Failed("datastore.PutMulti"))
       => /\ call.err = Nil
          /\ call.op = "Put" => call.retKeys = ResultOf("datastore.PutMulti").keys
    /\ (IsGet /\ Called("datastore.GetMulti") /\ ~Failed("datastore.GetMulti"))
       => call.err = Nil

\* the backends answered the calls of the last call: none of its backend
\* calls failed as a call (a MultiError tells of single keys, not of the call)
BackendsAnswer ==
    \A i \in 1..Len(call.calls) :
        call.calls[i].err \notin {ErrMemcacheCall, ErrDatastoreCall}

\* C21: in the revisions that return the error of the cache delete, a
\* DeleteMulti of keys that the datastore holds and memcache does not returns
\* nil: the cache misses that memcache.DeleteMulti reports are no error of
\* the call
C21_DeleteCacheMiss ==
    (/\ call.op = "DeleteMulti"
     /\ BackendsAnswer
     /\ \A i \in Positions : Stored(i) /\ ~Cached(i))
    => call.err = Nil

\* the i-th destination holds the record that was last put under the i-th key
HoldsLastPut(i) ==
    call.dst.elems[i] = LoadedOf(call.src.elems[i], SavedOf(lastPut[call.keys[i]]))

\* C22: in the revision that invalidates on write, after a Put or PutMulti
\* returned nil none of the returned keys has a cache entry, and a Get or
\* GetMulti of keys that were put, with no Put or Delete of them since,
\* returns the records that were put (said of a datastore that answers if it
\* is read)
C22_InvalidateOnWrite ==
    /\ (IsPut /\ call.err = Nil)
       => \A i \in 1..Len(call.retKeys) :
              Encode(call.retKeys[i]) \notin DOMAIN call.post.memcache
    /\ (/\ IsGet /\ Positions # {} /\ StoreAnswers
        /\ \A i \in Positions : call.keys[i] \in DOMAIN lastPut)
       => \A i \in Positions : HoldsLastPut(i)

\* the error of the i-th backend call of the call was logged with Warningf,
\* or is the error the call returned (for Get, Put and Delete: the error of
\* the batch call they wrap)
Observable(i) ==
    \/ \E j \in 1..Len(call.log) : call.log[j] = call.calls[i].err
    \/ call.err = call.calls[i].err
    \/ call.multi.err = call.calls[i].err

MemcacheCalls ==
    {i \in 1..Len(call.calls) :
        call.calls[i].fn \in {"memcache.GetMulti", "memcache.SetMulti", "memcache.DeleteMulti"}}

\* C23: every error that memcache returns during a Get, Put or Delete is
\* logged or returned to the caller; so for the lookup of GetMulti, for cache
\* and for DeleteMulti, and for the cache invalidation of PutMulti in the
\* second revision
C23_CacheFailuresObservable ==
    \A i \in MemcacheCalls : call.calls[i].err # Nil => Observable(i)

\* the writes of the call to the datastore and to memcache, as places in the
\* order of its backend calls
StoreWrites ==
    {i \in 1..Len(call.calls) : call.calls[i].fn \in {"datastore.Put", "datastore.PutMulti"}}
CacheWrites ==
    {i \in 1..Len(call.calls) : call.calls[i].fn \in {"memcache.Set", "memcache.SetMulti"}}

\* C24: in the revision of part_001 a Put or PutMulti writes to the datastore
\* before it writes to memcache, and when the datastore write fails it
\* attempts no cache write and leaves memcache as it was
C24_StoreFirst ==
    IsPut => /\ \A i \in StoreWrites, j \in CacheWrites : i < j
             /\ (\E i \in StoreWrites : call.calls[i].err # Nil)
                => CacheWrites = {} /\ call.post.memcache = call.pre.memcache

\* C25: checkMultiArg gives every value exactly one category: a value that is
\* not a slice, or is a PropertyList, is invalid; any other slice whose element
\* type P has *P implementing PropertyLoadSaver is custom-serializable, whatever
\* the kind of P; any other slice is struct, interface or struct pointer as its
\* elements are structs, interfaces or pointers to structs; the rest is invalid.
IsCandidate(t) == t.kind = "slice" /\ t # typeOfPropertyList
C25_Classification ==
    arg.checked =>
        LET t == arg.v.type
            custom == IsCandidate(t) /\ Implements(PtrTo(t.elem))
            plain == IsCandidate(t) /\ ~custom
        IN  /\ arg.m \in {multiArgTypeInvalid, multiArgTypePropertyLoadSaver, multiArgTypeStruct,
                          multiArgTypeStructPtr, multiArgTypeInterface}
            /\ arg.m = multiArgTypePropertyLoadSaver <=> custom
            /\ arg.m = multiArgTypeStruct <=> (plain /\ t.elem.kind = "struct")
            /\ arg.m = multiArgTypeInterface <=> (plain /\ t.elem.kind = "interface")
            /\ arg.m = multiArgTypeStructPtr <=>
                   (plain /\ t.elem.kind = "ptr" /\ t.elem.elem.kind = "struct")
\* a slice of structs with Load and Save on the pointer receiver was found
\* custom-serializable
C25_Witness ==
    /\ arg.checked
    /\ arg.v.type.kind = "slice"
    /\ arg.v.type.elem.kind = "struct"
    /\ arg.v.type.elem.methods = "ptr"
    /\ arg.m = multiArgTypePropertyLoadSaver

\* C26: the items encodeItems makes of a batch of records, given by value or by
\* pointer, decode through decodeItems without error into a destination of
\* either shape, also one of nil pointers, and leave at every position the
\* record of the source (for PropertyLoadSaver its string saved and loaded once).
C26_CrossShapeDecode ==
    call.op = "decodeItems" =>
        /\ call.err = Nil
        /\ \A i \in 1..Len(call.keys) :
              call.dst.elems[i] = LoadedOf(Zero(testType), SavedOf(call.src.elems[i]))

\* C27: the cache keys a call looks up or deletes are, position by position,
\* the string encodings of the keys it was given, as many as the keys and
\* whatever the cache and the datastore hold; and encodeItems gives the item
\* of every complete key that same encoding, so that the item is found under
\* the re-encoded key.
EncodedKeysOf(i) == call.calls[i].keys
C27_KeyCodec ==
    /\ \A c \in CallsTo("memcache.GetMulti") \cup CallsTo("memcache.DeleteMulti") :
          /\ Len(EncodedKeysOf(c)) = Len(call.keys)
          /\ \A i \in Positions : EncodedKeysOf(c)[i] = Encode(call.keys[i])
    /\ (call.op = "encodeItems" /\ call.err = Nil) =>
          \A i \in Positions : ~Incomplete(call.keys[i]) =>
              \E j \in 1..Len(call.items) :
                  call.items[j] = Item(Encode(call.keys[i]), encode(call.src.elems[i]).b)
\* a GetMulti looked up two different keys in the cache
C27_Witness ==
    /\ call.op = "GetMulti"
    /\ Called("memcache.GetMulti")
    /\ Len(call.keys) = MaxBatch
    /\ call.keys[1] # call.keys[MaxBatch]

\* C30: a Get of a key whose last Put returned nil without writing the cache,
\* so that the cache still holds the entry of an earlier record of the key,
\* returns nil and the record of that last Put, not the earlier one.
StaleEntry(i) ==
    /\ call.keys[i] \in DOMAIN lastPut
    /\ Cached(i)
    /\ Entry(i).valid
    /\ Entry(i) # encode(lastPut[call.keys[i]]).b
C30_NoStaleRead ==
    (call.op = "Get" /\ IsGet /\ StaleEntry(1))
    => /\ call.err = Nil
       /\ call.dst.elems[1] = LoadedOf(Zero(testType), SavedOf(lastPut[call.keys[1]]))

\* both requests have returned; what a Get of the key would return now
BothReturned == run # <<>> /\ run.at = "returned" /\ run.get.at = "returned"
FurtherGet == Get(memcache, store, run.key, Zero(testType), TRUE, TRUE, TRUE)

\* C28: however the backend calls of a Delete and of a Get of the same key
\* interleave, once the Delete has returned nil and the Get has returned, the
\* key has no cache entry and a further Get returns ErrNoSuchEntity.
C28_DeleteInterleaving ==
    (BothReturned /\ run.op = "Delete" /\ run.err = Nil)
    => /\ Encode(run.key) \notin DOMAIN memcache
       /\ FurtherGet.err = ErrNoSuchEntity

\* C29: however the backend calls of a Put and of a Get of the same key that
\* missed the cache interleave, once both have returned the cache entry of the
\* key, if there is one, decodes to the record the datastore holds, and a
\* later Get returns the record that was put.
C29_PutGetCoherence ==
    (BothReturned /\ run.op = "Put" /\ run.err = Nil /\ ~run.get.hit)
    => /\ Encode(run.key) \in DOMAIN memcache =>
              decode(memcache[Encode(run.key)], Zero(testType)).dst
                  = LoadedOf(Zero(testType), store[run.key])
       /\ FurtherGet.err = Nil
       /\ FurtherGet.dst.elems[1] = LoadedOf(Zero(testType), SavedOf(run.src.elems[1]))

\* a Get that read the datastore and wrote what it read to the cache; the Get
\* of the same key that follows it with nothing in between
Repopulated ==
    /\ call.op = "Get" /\ IsGet /\ call.err = Nil
    /\ Called("datastore.GetMulti")
    /\ Called("memcache.SetMulti") /\ ~Failed("memcache.SetMulti")
NextGet ==
    Get(call.post.memcache, call.post.store, call.keys[1], Zero(testType), TRUE, TRUE, TRUE)

\* C31: the Get that is served from the cache entry a datastore-served Get of
\* the key wrote returns no error and the same record as the datastore-served
\* Get returned, also for records whose Save and Load change the value.
C31_CacheServedEqualsStoreServed ==
    Repopulated => /\ NextGet.err = Nil
                   /\ NextGet.dst.elems[1] = call.dst.elems[1]

ServedFromCache ==
    /\ call.op = "GetMulti" /\ IsGet /\ Positions # {} /\ Distinct
    /\ \A i \in Positions : Cached(i)
    /\ ~Failed("memcache.GetMulti")
DecodeFails(i) == decode(Entry(i), call.src.elems[i]).err # Nil

\* C33: when every key of a GetMulti hits the cache and some entries do not
\* decode, the call returns a MultiError that is non-nil at exactly those
\* positions, the other destinations hold what their entries decode to, the
\* datastore is not called and the cache is left as it was.
C33_DecodeFailureOnHit ==
    (ServedFromCache /\ \E i \in Positions : DecodeFails(i))
    => /\ IsMultiError(call.err)
       /\ Len(call.err.me) = Len(call.keys)
       /\ \A i \in Positions : call.err.me[i] # Nil <=> DecodeFails(i)
       /\ \A i \in Positions : ~DecodeFails(i) => HoldsDecoded(i)
       /\ ~Called("datastore.GetMulti")
       /\ call.post.memcache = call.pre.memcache
\* of two cached keys one entry decoded and the other did not
C33_Witness ==
    /\ ServedFromCache
    /\ \E i, j \in Positions : DecodeFails(i) /\ ~DecodeFails(j)

\* C34: when the datastore read of a GetMulti returns an error, be it a
\* MultiError that marks only some keys as not found, the call returns that
\* error (Get its element 0), issues no memcache.SetMulti and leaves the cache
\* as it was, also for the keys whose records were read.
C34_NoRepopulationAfterReadError ==
    (call.op \in {"Get", "GetMulti"} /\ Failed("datastore.GetMulti"))
    => /\ call.err = Unwrapped(ResultOf("datastore.GetMulti").err)
       /\ ~Called("memcache.SetMulti")
       /\ call.post.memcache = call.pre.memcache
\* a GetMulti read one key's record and found the other key missing
C34_Witness ==
    /\ call.op = "GetMulti" /\ IsGet
    /\ IsMultiError(call.err)
    /\ \E i, j \in Positions :
          /\ call.err.me[i] = Nil /\ Stored(i) /\ ~Cached(i)
          /\ call.dst.elems[i] # call.src.elems[i]
          /\ call.err.me[j] = ErrNoSuchEntity

\* the positions of the call whose key is complete, the cache keys of those
\* positions in order, and whether some record at such a position fails to
\* encode
Complete(k) == ~Incomplete(k)
Concrete == {i \in Positions : Complete(call.keys[i])}
EncodeFails == \E i \in Concrete : encode(call.src.elems[i]).err # Nil

\* C35: a call of cache issues at most one memcache.SetMulti; when some record
\* fails to encode or no key is complete it issues none and leaves the cache
\* as it was; otherwise it sets one item per complete key, in the order of the
\* keys.
C35_AllOrNothingPopulation ==
    call.op = "cache" =>
        /\ Len(call.calls) <= 1
        /\ (EncodeFails \/ Concrete = {}) => /\ call.calls = <<>>
                                              /\ call.post.memcache = call.pre.memcache
        /\ ~(EncodeFails \/ Concrete = {}) =>
              /\ Called("memcache.SetMulti")
              /\ EncodedKeysOf(1) = encodeKeys(SelectSeq(call.keys, Complete))
\* the first record of a batch of complete keys encoded, the next did not, and
\* nothing was set
C35_Witness ==
    /\ call.op = "cache"
    /\ Concrete = Positions
    /\ Len(call.keys) > 1
    /\ encode(call.src.elems[1]).err = Nil
    /\ EncodeFails
    /\ call.calls = <<>>

\* what a Get of the i-th key of the call returns after the call, the
\* datastore answering, for the given outcomes of its cache lookup and write
GetAfter(i, getOk, setOk) ==
    Get(call.post.memcache, call.post.store, call.keys[i], Zero(testType), getOk, TRUE, setOk)
\* after a Delete or DeleteMulti whose datastore delete failed: the cache was
\* deleted from first, the error is returned, the datastore is as before, no
\* key has a cache entry, and a Get of a key that is stored reads the
\* datastore and returns its record
AfterFailedDelete ==
    /\ Len(call.calls) = 2
    /\ call.calls[1].fn = "memcache.DeleteMulti"
    /\ call.calls[2].fn = "datastore.DeleteMulti"
    /\ call.err = Unwrapped(call.calls[2].err)
    /\ call.post.store = call.pre.store
    /\ \A i \in Positions : Encode(call.keys[i]) \notin DOMAIN call.post.memcache
    /\ \A i \in Positions : Stored(i) =>
          \A getOk \in BOOLEAN, setOk \in BOOLEAN :
              /\ GetAfter(i, getOk, setOk).err = Nil
              /\ GetAfter(i, getOk, setOk).calls[2].fn = "datastore.GetMulti"
              /\ GetAfter(i, getOk, setOk).dst.elems[1]
                     = LoadedOf(Zero(testType), call.post.store[call.keys[i]])

\* C36 as the spec states it: whenever the datastore delete of a DeleteMulti
\* fails, the call has deleted from the cache first, returns that error, the
\* datastore still holds the records, the keys have no cache entries and a
\* following Get of a stored key reads the datastore and returns the record.
C36_FailedDurableDelete ==
    (IsDelete /\ Failed("datastore.DeleteMulti")) => AfterFailedDelete

\* C37: every encode returns, for any number of properties (more than the
\* channel holds included), gob and Save failing or not, Save closing the
\* channel before it returns; and it has returned only after its goroutine
\* closed donec and ended.
C37_EncodeTerminates ==
    /\ (task.fn = "encode") ~> (task.pc = "returned")
    /\ [](task.fn = "encode" /\ task.pc = "returned"
            => task.donec /\ task.goroutine = "done" /\ task.c = 0)
\* an encode of more properties than the channel holds has returned
C37_Witness ==
    /\ task.fn = "encode"
    /\ task.n > ChanCap
    /\ task.failAfter = -1
    /\ task.recv = task.n
    /\ task.pc = "returned"

\* an encode or decode that has returned; Save or Load failed in it: it
\* stopped at the property after which it fails
HasReturned(fn) == task.fn = fn /\ task.pc = "returned"
SaveFailed == HasReturned("encode") /\ task.sent = task.failAfter
LoadFailed == HasReturned("decode") /\ task.recv = task.failAfter
\* C38 but for the payload that does not deserialize: encode returns nil and
\* Save's error when Save failed, whatever gob did; decode returns Load's
\* error when Load failed, and nil only if gob and Load both succeeded; of a
\* payload that does not deserialize Load receives nothing.
SurfacedErrors ==
    /\ SaveFailed => task.b = NilBytes /\ task.err = ErrInvalidType
    /\ LoadFailed => task.err = ErrFieldMismatch
    /\ (HasReturned("decode") /\ ~task.gobOk) => task.recv = 0
    /\ (HasReturned("decode") /\ task.err = Nil) => task.gobOk /\ ~LoadFailed

\* C38 as the spec states it: the above, and whenever the payload cannot be
\* deserialized decode returns the deserialization error and Load found the
\* channel empty and closed.
C38_SerializationErrors ==
    /\ SurfacedErrors
    /\ (HasReturned("decode") /\ ~task.gobOk) => task.err = ErrGob /\ task.closed

\* C38, amended: the above, and whenever the payload cannot be deserialized
\* and Load does not fail decode returns the deserialization error and Load
\* found the channel empty and closed.
C38_SerializationErrorsLoadFirst ==
    /\ SurfacedErrors
    /\ (HasReturned("decode") /\ ~task.gobOk /\ ~LoadFailed)
           => task.err = ErrGob /\ task.closed
\* a decode of a payload that does not deserialize returned the gob error,
\* Load having returned nil on the empty closed channel
C38_Witness ==
    /\ HasReturned("decode")
    /\ ~task.gobOk
    /\ task.n > 0
    /\ ~LoadFailed
    /\ task.err = ErrGob

\* every cache entry of the snapshot is the entry of a key that the datastore
\* of the snapshot holds, and decodes without error to the Struct stored there
Coherent(snap) ==
    \A encodedKey \in DOMAIN snap.memcache :
        \E key \in DOMAIN snap.store :
            /\ Encode(key) = encodedKey
            /\ decode(snap.memcache[encodedKey], Zero("Struct"))
                   = [dst |-> LoadedOf(Zero("Struct"), snap.store[key]), err |-> Nil]
SequentialCall ==
    /\ testType = "Struct"
    /\ call.op \in {"Put", "PutMulti", "Get", "GetMulti", "Delete", "DeleteMulti"}
    /\ BackendsAnswer

\* C39: on Struct records, a Put, PutMulti, Get, GetMulti, Delete or
\* DeleteMulti in which no backend call fails, begun where every cache entry
\* belongs to a stored key and decodes to the stored record, ends in such a
\* state.  The first state has an empty cache, and only the calls change the
\* backends when nothing changes the datastore behind the package, so every
\* state of a sequence of such calls is of this kind.
C39_SequentialCoherence ==
    (SequentialCall /\ Coherent(call.pre)) => Coherent(call.post)
\* a call without backend failure that began with cached records and left
\* an entry in the cache that was not there before
C39_Witness ==
    /\ SequentialCall
    /\ Coherent(call.pre)
    /\ call.pre.memcache # <<>>
    /\ DOMAIN call.post.memcache \ DOMAIN call.pre.memcache # {}
    /\ call.post = Snapshot

\* the Get or GetMulti went to decodeItems: it looked memcache up and called
\* no other backend
DecodedItems ==
    /\ call.op \in {"Get", "GetMulti"}
    /\ Len(call.calls) = 1
    /\ call.calls[1].fn = "memcache.GetMulti"
\* the error decodeItems returned to GetMulti
DecodeItemsError == IF call.op = "Get" THEN call.multi.err ELSE call.err

\* C40: when a Get or GetMulti goes to decodeItems, every key of the batch
\* has an item in memcache, the keys are distinct, and decodeItems reports
\* ErrNoSuchEntity at no position.
C40_NotFoundUnreachable ==
    DecodedItems =>
        /\ \A i \in Positions : Cached(i)
        /\ Distinct
        /\ DecodeItemsError # ErrNoSuchEntity
        /\ IsMultiError(DecodeItemsError) =>
              \A i \in 1..Len(DecodeItemsError.me) :
                  DecodeItemsError.me[i] # ErrNoSuchEntity
\* a GetMulti of two keys went to decodeItems, which reported an error at
\* one position and none at the other
C40_Witness ==
    /\ DecodedItems
    /\ call.op = "GetMulti"
    /\ Len(call.keys) > 1
    /\ IsMultiError(call.err)
    /\ \E i \in 1..Len(call.err.me) : call.err.me[i] = Nil

====
